---- MODULE Spec2Model ----
(***************************************************************************)
(* ready-to-ship: the heuristic extraction-and-validation engine.         *)
(*                                                                         *)
(* Text is a sequence of one-character strings, so the extractors below   *)
(* work on the characters the regular expressions of the source work on.  *)
(* The project tree is a record (root files, source files, folders); the  *)
(* seven validators are operators from a project to a ValidatorResult and *)
(* report.generate is a process that runs them in order.                  *)
(***************************************************************************)
EXTENDS Integers, Sequences, FiniteSets, TLC

VARIABLES
    project,   \* the project tree the command is run on
    options,   \* the command line: cmd, and for report json and skip
    pc,        \* where the command is: a module name, "summary", "json",
               \* "return", "cli", "call", "done" or "crashed"
    results,   \* module name -> ValidatorResult, for the modules run so far
    report,    \* what generate has computed: passed, totals, verdict
    written,   \* the files written so far
    exit,      \* the exit code of the process, NoExit while it runs
    input,     \* the arguments of an extractor called on its own
    output     \* and what it returned

vars == <<project, options, pc, results, report, written, exit, input, output>>

(***************************************************************************)
(* Characters and JavaScript string primitives                             *)
(***************************************************************************)
\* the backquote character (it cannot be written inside a TLA+ string)
BACKTICK == "backtick"

UpperAlpha == <<"A","B","C","D","E","F","G","H","I","J","K","L","M","N","O","P","Q","R","S","T","U","V","W","X","Y","Z">>

LowerAlpha == <<"a","b","c","d","e","f","g","h","i","j","k","l","m","n","o","p","q","r","s","t","u","v","w","x","y","z">>

Digits == <<"0","1","2","3","4","5","6","7","8","9">>

Range(s) == {s[i] : i \in 1..Len(s)}

UpperSet == Range(UpperAlpha)

LowerSet == Range(LowerAlpha)

DigitSet == Range(Digits)

LetterSet == UpperSet \cup LowerSet

\* \s of a JavaScript regular expression (the characters that occur here)
WhiteSpace == {" ", "\t", "\n", "\r"}

IndexIn(s, c) == CHOOSE i \in 1..Len(s) : s[i] = c

LowerOf == [c \in UpperSet |-> LowerAlpha[IndexIn(UpperAlpha, c)]]

UpperOf == [c \in LowerSet |-> UpperAlpha[IndexIn(LowerAlpha, c)]]

ToLowerChar(c) == IF c \in UpperSet THEN LowerOf[c] ELSE c

ToUpperChar(c) == IF c \in LowerSet THEN UpperOf[c] ELSE c

\* String.prototype.toLowerCase / toUpperCase
toLowerCase(s) == [i \in 1..Len(s) |-> ToLowerChar(s[i])]

toUpperCase(s) == [i \in 1..Len(s) |-> ToUpperChar(s[i])]

\* the text p occurs in s at position i (1-based)
MatchAt(s, i, p) ==
    /\ i >= 1
    /\ i + Len(p) - 1 <= Len(s)
    /\ \A k \in 1..Len(p) : s[i + k - 1] = p[k]

\* the same, ignoring case (the i flag); p is written in lower case
MatchAtCI(s, i, p) ==
    /\ i >= 1
    /\ i + Len(p) - 1 <= Len(s)
    /\ \A k \in 1..Len(p) : ToLowerChar(s[i + k - 1]) = p[k]

\* String.prototype.includes, and an unanchored literal regex test
includes(s, p) == \E i \in 1..(Len(s) - Len(p) + 1) : MatchAt(s, i, p)

includesCI(s, p) == includes(toLowerCase(s), p)

startsWith(s, p) == MatchAt(s, 1, p)

\* an unanchored regex /a|b|c/i
TestAnyCI(s, alts) == LET lower == toLowerCase(s) IN \E p \in alts : includes(lower, p)

Min(S) == CHOOSE x \in S : \A y \in S : x <= y

Max(S) == CHOOSE x \in S : \A y \in S : x >= y

\* positions of the character c in s
Positions(s, c) == {i \in 1..Len(s) : s[i] = c}

\* end of the run of characters of class C that starts at position i:
\* the first position >= i whose character is not in C (Len(s)+1 if none)
RunEnd(s, i, C) ==
    IF i > Len(s) THEN i
    ELSE Min({j \in i..(Len(s) + 1) : j = Len(s) + 1 \/ s[j] \notin C})

\* the first position >= i whose character is in Stop (Len(s)+1 if none)
NextOf(s, i, Stop) ==
    IF i > Len(s) THEN i
    ELSE Min({j \in i..(Len(s) + 1) : j = Len(s) + 1 \/ s[j] \in Stop})

\* String.prototype.split on a one-character separator
RECURSIVE split(_, _)
split(s, sep) ==
    LET cut(i) == IF i > Len(s) THEN <<s>>
                  ELSE <<SubSeq(s, 1, i - 1)>> \o split(SubSeq(s, i + 1, Len(s)), sep)
    IN  cut(NextOf(s, 1, {sep}))

\* Array.prototype.join
RECURSIVE join(_, _)
join(parts, sep) ==
    IF Len(parts) = 0 THEN <<>>
    ELSE IF Len(parts) = 1 THEN parts[1]
    ELSE parts[1] \o sep \o join(Tail(parts), sep)

\* Array.prototype.slice(from, to) with 0-based, end-exclusive indices
slice(a, from, to) == SubSeq(a, from + 1, IF to > Len(a) THEN Len(a) ELSE to)

\* String.prototype.trim
trim(s) ==
    LET kept(keep) == IF keep = {} THEN <<>> ELSE SubSeq(s, Min(keep), Max(keep))
    IN  kept({i \in 1..Len(s) : s[i] \notin WhiteSpace})

RECURSIVE Repeat(_, _)
Repeat(c, n) == IF n = 0 THEN <<>> ELSE <<c>> \o Repeat(c, n - 1)

\* parseInt of a run of decimal digits
RECURSIVE parseInt(_)
parseInt(d) ==
    IF Len(d) = 0 THEN 0
    ELSE parseInt(SubSeq(d, 1, Len(d) - 1)) * 10 + (IndexIn(Digits, d[Len(d)]) - 1)

\* Array.prototype.forEach with pushes: the concatenation of F over s
RECURSIVE FlatMap(_, _)
FlatMap(F(_), s) == IF Len(s) = 0 THEN <<>> ELSE F(Head(s)) \o FlatMap(F, Tail(s))

(***************************************************************************)
(* src/utils/parseHelpers.js                                               *)
(***************************************************************************)
Quotes == {"'", "\"", BACKTICK}

HttpVerbs == <<<<"g","e","t">>, <<"p","o","s","t">>, <<"p","u","t">>, <<"d","e","l","e","t","e">>, <<"p","a","t","c","h">>>>

\* the expressions with the repeated one listed once
routePatternsDistinct == <<{<<"a","p","p">>, <<"r","o","u","t","e","r">>}, {<<"R","o","u","t","e">>}>>

\* the three regular expressions of extractRoutes, by their identifier part
routePatterns == <<{<<"a","p","p">>, <<"r","o","u","t","e","r">>}, {<<"a","p","p">>, <<"r","o","u","t","e","r">>}, {<<"R","o","u","t","e">>}>>

NoMatch == [ok |-> FALSE]

\* one attempt of /(?:id1|id2)\.(get|post|put|delete|patch)\s*\(['"`]([^'"`]+)['"`]/
\* anchored at position i: the identifier, a dot, a verb, optional white
\* space, an opening parenthesis, a quote, one or more non-quote
\* characters, a quote
RouteMatchAt(code, i, idents) ==
    LET \* the rest of the expression after identifier c[1], dot and verb
        \* c[2]; p3 is where the parenthesis must be, q the closing quote
        rest(c, p3, q) ==
            IF /\ p3 + 1 <= Len(code)
               /\ code[p3] = "("
               /\ code[p3 + 1] \in Quotes
               /\ q > p3 + 2
               /\ q <= Len(code)
            THEN [ok |-> TRUE, index |-> i, verb |-> c[2],
                  path |-> SubSeq(code, p3 + 2, q - 1), lastIndex |-> q + 1]
            ELSE NoMatch
        after(c, p3) == rest(c, p3, NextOf(code, p3 + 2, Quotes))
        try(c) ==
            IF /\ MatchAt(code, i, c[1])
               /\ MatchAt(code, i + Len(c[1]), <<".">>)
               /\ MatchAt(code, i + Len(c[1]) + 1, c[2])
            THEN after(c, RunEnd(code, i + Len(c[1]) + 1 + Len(c[2]), WhiteSpace))
            ELSE NoMatch
        first(cands) == IF cands = {} THEN NoMatch ELSE try(CHOOSE c \in cands : TRUE)
    IN  first({c \in idents \X Range(HttpVerbs) : try(c).ok})

\* code.substring(0, index).split('\n').length, index being 0-based
LineOf(code, index0) == Cardinality({i \in 1..index0 : code[i] = "\n"}) + 1

\* while ((match = pattern.exec(code)) !== null) routes.push(...), the g flag
\* resuming each search where the previous match ended
\* the positions at which the expression matches: each has the dot of the
\* registration right after its identifier
MatchStarts(code, idents) ==
    {i \in {d - Len(id) : d \in Positions(code, "."), id \in idents} :
        RouteMatchAt(code, i, idents).ok}

RECURSIVE execAll(_, _, _, _)
execAll(code, idents, starts, from) ==
    LET push(m) == <<[method |-> toUpperCase(m.verb),
                      path   |-> m.path,
                      line   |-> LineOf(code, m.index - 1)]>>
                   \o execAll(code, idents, starts, m.lastIndex)
        next(hits) == IF hits = {} THEN <<>> ELSE push(RouteMatchAt(code, Min(hits), idents))
    IN  next({i \in starts : i >= from})

RECURSIVE extractRoutesWith(_, _)
extractRoutesWith(code, patterns) ==
    IF Len(patterns) = 0 THEN <<>>
    ELSE execAll(code, Head(patterns), MatchStarts(code, Head(patterns)), 1)
         \o extractRoutesWith(code, Tail(patterns))

extractRoutes(code) == extractRoutesWith(code, routePatterns)

\* /middleware.*auth/i : "middleware", then any characters except a line
\* terminator, then "auth"
MiddlewareDotStarAuth(text) ==
    \E i \in 1..Len(text) :
        /\ MatchAtCI(text, i, <<"m","i","d","d","l","e","w","a","r","e">>)
        /\ \E j \in (i + 10)..Len(text) :
              /\ MatchAtCI(text, j, <<"a","u","t","h">>)
              /\ \A k \in (i + 10)..(j - 1) : text[k] \notin {"\n", "\r"}

\* the auth patterns without the catch-all first one
AuthPatternsMatchNamedOnly(text) ==
    \/ includes(text, <<"p","a","s","s","p","o","r","t",".","a","u","t","h","e","n","t","i","c","a","t","e">>)
    \/ MiddlewareDotStarAuth(text)

\* authPatterns.some(pattern => pattern.test(context))
AuthPatternsMatch(text) ==
    \/ TestAnyCI(text, {<<"a","u","t","h","e","n","t","i","c","a","t","e">>, <<"a","u","t","h">>, <<"j","w","t">>, <<"v","e","r","i","f","y","t","o","k","e","n">>,
                        <<"r","e","q","u","i","r","e","a","u","t","h">>, <<"i","s","a","u","t","h","e","n","t","i","c","a","t","e","d">>})
    \/ includes(text, <<"p","a","s","s","p","o","r","t",".","a","u","t","h","e","n","t","i","c","a","t","e">>)
    \/ MiddlewareDotStarAuth(text)

\* the lines before the route only
ContextBefore(lines, routeIndex) ==
    join(slice(lines, Max({0, routeIndex - 3}), routeIndex - 1), <<"\n">>)

\* lines.slice(Math.max(0, routeIndex - 3), routeIndex + 3).join('\n')
Context(lines, routeIndex) ==
    join(slice(lines, Max({0, routeIndex - 3}), routeIndex + 3), <<"\n">>)

hasAuthMiddleware(code, routeIndex) ==
    AuthPatternsMatch(Context(split(code, "\n"), routeIndex))

\* hasErrorHandling: catch\s*\( | \.catch\s*\( | errorHandler|error-handler|
\* errorMiddleware (i) | express\.errorHandler | app\.use.*error (i)
CatchParen(code) ==
    \E i \in 1..Len(code) :
        /\ MatchAt(code, i, <<"c","a","t","c","h">>)
        /\ LET p == RunEnd(code, i + 5, WhiteSpace)
           IN  p <= Len(code) /\ code[p] = "("

AppUseDotStarError(code) ==
    \E i \in 1..Len(code) :
        /\ MatchAtCI(code, i, <<"a","p","p",".","u","s","e">>)
        /\ \E j \in (i + 7)..Len(code) :
              /\ MatchAtCI(code, j, <<"e","r","r","o","r">>)
              /\ \A k \in (i + 7)..(j - 1) : code[k] \notin {"\n", "\r"}

hasErrorHandling(code) ==
    \/ CatchParen(code)
    \/ TestAnyCI(code, {<<"e","r","r","o","r","h","a","n","d","l","e","r">>, <<"e","r","r","o","r","-","h","a","n","d","l","e","r">>, <<"e","r","r","o","r","m","i","d","d","l","e","w","a","r","e">>})
    \/ includes(code, <<"e","x","p","r","e","s","s",".","e","r","r","o","r","H","a","n","d","l","e","r">>)
    \/ AppUseDotStarError(code)

\* one attempt, anchored at i, of
\*   /<keyword>\s*[:=]\s*['"`]?(\d+)\s*([a-z]+)['"`]?/i     (withUnit)
\*   /<keyword>\s*[:=]\s*(\d+)/i                            (otherwise)
ExpiryMatchAt(code, i, keyword, withUnit) ==
    LET \* p3 .. d - 1 are the digits, u .. e - 1 the letters of the unit
        captured(p3, d, u, e) ==
            IF d > p3 /\ (withUnit => e > u)
            THEN [ok |-> TRUE, value |-> SubSeq(code, p3, d - 1),
                  unit |-> IF withUnit THEN SubSeq(code, u, e - 1) ELSE <<>>]
            ELSE NoMatch
        unit(p3, d, u) == captured(p3, d, u, RunEnd(code, u, LetterSet))
        digits(p3, d) == unit(p3, d, RunEnd(code, d, WhiteSpace))
        number(p3) == digits(p3, RunEnd(code, p3, DigitSet))
        \* the optional quote
        quote(p2) ==
            number(IF withUnit /\ p2 <= Len(code) /\ code[p2] \in Quotes THEN p2 + 1 ELSE p2)
        sign(p1) ==
            IF p1 <= Len(code) /\ code[p1] \in {":", "="}
            THEN quote(RunEnd(code, p1 + 1, WhiteSpace))
            ELSE NoMatch
    IN  IF MatchAtCI(code, i, keyword)
        THEN sign(RunEnd(code, i + Len(keyword), WhiteSpace))
        ELSE NoMatch

\* the rightmost match
ExpiryMatchLast(code, keyword, withUnit) ==
    LET rightmost(hits) ==
            IF hits = {} THEN NoMatch ELSE ExpiryMatchAt(code, Max(hits), keyword, withUnit)
    IN  rightmost({i \in 1..Len(code) : ExpiryMatchAt(code, i, keyword, withUnit).ok})

\* code.match(pattern): the leftmost match
ExpiryMatch(code, keyword, withUnit) ==
    LET leftmost(hits) ==
            IF hits = {} THEN NoMatch ELSE ExpiryMatchAt(code, Min(hits), keyword, withUnit)
    IN  leftmost({i \in 1..Len(code) : ExpiryMatchAt(code, i, keyword, withUnit).ok})

jwtPatterns ==
    <<[keyword |-> <<"e","x","p","i","r","e","s","i","n">>, withUnit |-> TRUE],
      [keyword |-> <<"e","x","p","i","r","e","s","i","n">>, withUnit |-> FALSE],
      [keyword |-> <<"j","w","t","_","e","x","p","i","r","y">>, withUnit |-> TRUE]>>

\* the conversion with calendar-like factors: a year of 366 days and a
\* month of 31
ToSecondsLongMonths(value, unit) ==
    IF includes(unit, <<"y","e","a","r">>) \/ unit = <<"y">> THEN value * 366 * 24 * 60 * 60
    ELSE IF includes(unit, <<"m","o","n","t","h">>) \/ unit = <<"m">> THEN value * 31 * 24 * 60 * 60
    ELSE IF includes(unit, <<"d","a","y">>) \/ unit = <<"d">> THEN value * 24 * 60 * 60
    ELSE IF includes(unit, <<"h","o","u","r">>) \/ unit = <<"h">> THEN value * 60 * 60
    ELSE IF includes(unit, <<"m","i","n","u","t","e">>) \/ unit = <<"m","i","n">> THEN value * 60
    ELSE value

\* the conversion with the one-letter m read as minutes
ToSecondsMinutes(value, unit) ==
    IF includes(unit, <<"y","e","a","r">>) \/ unit = <<"y">> THEN value * 365 * 24 * 60 * 60
    ELSE IF includes(unit, <<"m","o","n","t","h">>) THEN value * 30 * 24 * 60 * 60
    ELSE IF includes(unit, <<"d","a","y">>) \/ unit = <<"d">> THEN value * 24 * 60 * 60
    ELSE IF includes(unit, <<"h","o","u","r">>) \/ unit = <<"h">> THEN value * 60 * 60
    ELSE IF includes(unit, <<"m","i","n","u","t","e">>) \/ unit \in {<<"m","i","n">>, <<"m">>} THEN value * 60
    ELSE value

\* the unit conversion of extractJWTExpiry
ToSeconds(value, unit) ==
    IF includes(unit, <<"y","e","a","r">>) \/ unit = <<"y">> THEN value * 365 * 24 * 60 * 60
    ELSE IF includes(unit, <<"m","o","n","t","h">>) \/ unit = <<"m">> THEN value * 30 * 24 * 60 * 60
    ELSE IF includes(unit, <<"d","a","y">>) \/ unit = <<"d">> THEN value * 24 * 60 * 60
    ELSE IF includes(unit, <<"h","o","u","r">>) \/ unit = <<"h">> THEN value * 60 * 60
    ELSE IF includes(unit, <<"m","i","n","u","t","e">>) \/ unit = <<"m","i","n">> THEN value * 60
    ELSE value

\* the null result of extractJWTExpiry
NoExpiry == [found |-> FALSE]

\* for (const pattern of patterns) { const match = code.match(pattern); if (match) ... return seconds } return null
RECURSIVE extractJWTExpiryFrom(_, _)
extractJWTExpiryFrom(code, patterns) ==
    IF Len(patterns) = 0 THEN NoExpiry
    ELSE LET matched(m) ==
                 IF m.ok
                 THEN [found |-> TRUE,
                       seconds |-> ToSeconds(parseInt(m.value),
                                      toLowerCase(IF m.unit = <<>> THEN <<"s">> ELSE m.unit))]
                 ELSE extractJWTExpiryFrom(code, Tail(patterns))
         IN  matched(ExpiryMatch(code, Head(patterns).keyword, Head(patterns).withUnit))

extractJWTExpiry(code) == extractJWTExpiryFrom(code, jwtPatterns)

(***************************************************************************)
(* src/utils/fileHelpers.js                                                *)
(*                                                                         *)
(* A project is a record                                                   *)
(*   env, envExample : [exists, content]   the root files .env, .env.example *)
(*   readmes  : <<README.md, README.txt, readme.md>>, each [exists, content] *)
(*   pkg      : [exists, kind, dependencies, devDependencies, start,       *)
(*               description]              package.json and what JSON.parse *)
(*                                         makes of it                     *)
(*   lock     : a lock file exists                                         *)
(*   folders  : the top-level folders that exist                           *)
(*   files    : the source files in glob order, each                       *)
(*              [dirs, base, ext, content]                                 *)
(* A file that cannot be read has content <<>>: readFile returns null and  *)
(* every caller treats null like the empty text.                           *)
(***************************************************************************)
\* glob(pattern, {cwd, absolute: true}); a pattern **/{d1,d2}/**/<base>.{e1,e2}
\* is [dirs, base, arg, exts]: dirs = {} when no folder is required, base is
\* "any" (*), "oneOf" ({a,b}), "prefix" (a*) or "contains" (*a*)
GlobMatch(pat, f) ==
    /\ \A i \in 1..Len(f.dirs) : ~startsWith(f.dirs[i], <<".">>)
    /\ pat.dirs = {} \/ \E i \in 1..Len(f.dirs) : f.dirs[i] \in pat.dirs
    /\ f.ext \in pat.exts
    /\ CASE pat.base = "any"      -> Len(f.base) > 0 /\ ~startsWith(f.base, <<".">>)
         [] pat.base = "oneOf"    -> f.base \in pat.arg
         [] pat.base = "prefix"   -> \E a \in pat.arg : startsWith(f.base, a)
         [] pat.base = "contains" -> /\ \E a \in pat.arg : includes(f.base, a)
                                     /\ ~startsWith(f.base, <<".">>)

findFiles(pat, p) == SelectSeq(p.files, LAMBDA f : GlobMatch(pat, f))

RECURSIVE findAll(_, _)
findAll(pats, p) ==
    IF Len(pats) = 0 THEN <<>> ELSE findFiles(Head(pats), p) \o findAll(Tail(pats), p)

JsTs == {<<"j","s">>, <<"t","s">>}

JsTsx == {<<"j","s">>, <<"t","s">>, <<"j","s","x">>, <<"t","s","x">>}

Glob(dirs, base, arg, exts) == [dirs |-> dirs, base |-> base, arg |-> arg, exts |-> exts]

\* '**/{app,server,index,main}.{js,ts}'
MainAppGlob == Glob({}, "oneOf", {<<"a","p","p">>, <<"s","e","r","v","e","r">>, <<"i","n","d","e","x">>, <<"m","a","i","n">>}, JsTs)

\* path.relative(projectPath, filePath)
relative(f) == join(f.dirs \o <<f.base \o <<".">> \o f.ext>>, <<"/">>)

\* value.replace(/^["']|["']$/g, '')
StripQuotes(v) ==
    LET a == IF Len(v) > 0 /\ v[1] \in {"\"", "'"} THEN Tail(v) ELSE v
    IN  IF Len(a) > 0 /\ a[Len(a)] \in {"\"", "'"} THEN SubSeq(a, 1, Len(a) - 1) ELSE a

\* the properties every object literal inherits from Object.prototype
ObjectPrototypeKeys ==
    {<<"c","o","n","s","t","r","u","c","t","o","r">>, <<"h","a","s","O","w","n","P","r","o","p","e","r","t","y">>, <<"i","s","P","r","o","t","o","t","y","p","e","O","f">>, <<"p","r","o","p","e","r","t","y","I","s","E","n","u","m","e","r","a","b","l","e">>,
     <<"t","o","L","o","c","a","l","e","S","t","r","i","n","g">>, <<"t","o","S","t","r","i","n","g">>, <<"v","a","l","u","e","O","f">>, <<"_","_","p","r","o","t","o","_","_">>, <<"_","_","d","e","f","i","n","e","G","e","t","t","e","r","_","_">>,
     <<"_","_","d","e","f","i","n","e","S","e","t","t","e","r","_","_">>, <<"_","_","l","o","o","k","u","p","G","e","t","t","e","r","_","_">>, <<"_","_","l","o","o","k","u","p","S","e","t","t","e","r","_","_">>}

\* env[key] = value on an object whose keys keep their insertion order;
\* assigning a string to __proto__ is ignored and creates no key
Put(env, key, value) ==
    IF key = <<"_","_","p","r","o","t","o","_","_">> THEN env
    ELSE IF \E i \in 1..Len(env) : env[i].key = key
    THEN [i \in 1..Len(env) |->
            IF env[i].key = key THEN [key |-> key, value |-> value] ELSE env[i]]
    ELSE Append(env, [key |-> key, value |-> value])

\* the loop body of parseEnvFile: trimmed.match(/^([^=]+)=(.*)$/)
EnvLine(env, line) ==
    LET trimmed == trim(line)
        eq      == NextOf(trimmed, 1, {"="})
    IN  IF Len(trimmed) = 0 \/ startsWith(trimmed, <<"#">>) THEN env
        ELSE IF /\ eq >= 2
                /\ eq <= Len(trimmed)
                /\ \A k \in (eq + 1)..Len(trimmed) : trimmed[k] \notin {"\n", "\r"}
             THEN Put(env, trim(SubSeq(trimmed, 1, eq - 1)),
                      StripQuotes(trim(SubSeq(trimmed, eq + 1, Len(trimmed)))))
             ELSE env

RECURSIVE EnvLines(_, _)
EnvLines(env, lines) ==
    IF Len(lines) = 0 THEN env ELSE EnvLines(EnvLine(env, Head(lines)), Tail(lines))

\* parseEnvFile applied to the content of a file (<<>> when readFile fails)
parseEnvFile(content) ==
    IF Len(content) = 0 THEN <<>> ELSE EnvLines(<<>>, split(content, "\n"))

\* Object.keys(env), key in env, env[key]
Keys(env) == [i \in 1..Len(env) |-> env[i].key]

HasKey(env, key) == \E i \in 1..Len(env) : env[i].key = key

\* key in env: own and inherited properties
In(key, env) == HasKey(env, key) \/ key \in ObjectPrototypeKeys

Get(env, key) == env[CHOOSE i \in 1..Len(env) : env[i].key = key].value

(***************************************************************************)
(* ValidatorResult                                                         *)
(***************************************************************************)
\* what a validate function returns; skipped and data stand for the module
\* specific fields (skipped; vulnerableRoutes, routes)
Result(passed, issues, warnings) ==
    [threw |-> FALSE, passed |-> passed, issues |-> issues, warnings |-> warnings,
     skipped |-> FALSE, data |-> <<>>]

\* the promise of validate rejects (an exception escaped)
Threw ==
    [threw |-> TRUE, passed |-> FALSE, issues |-> <<>>, warnings |-> <<>>,
     skipped |-> FALSE, data |-> <<>>]

\* if (issues.length === 0 && warnings.length === 0) return {passed: true, ...}
\* ... return { passed: issues.length === 0, issues, warnings }
Verdict(issues, warnings) == Result(Len(issues) = 0, issues, warnings)

(***************************************************************************)
(* src/modules/env.js                                                      *)
(***************************************************************************)
\* new URL(str) succeeds: a scheme, letters then ':' (the part of the URL
\* grammar the values used here exercise)
isValidUrl(str) ==
    LET c == RunEnd(str, 1, LetterSet)
    IN  c > 1 /\ c <= Len(str) /\ str[c] = ":"

\* /^[^\s@]+@[^\s@]+\.[^\s@]+$/
isValidEmail(str) ==
    /\ \A i \in 1..Len(str) : str[i] \notin WhiteSpace
    /\ Cardinality(Positions(str, "@")) = 1
    /\ LET at == Min(Positions(str, "@"))
       IN  /\ at > 1
           /\ \E d \in Positions(str, ".") : d > at + 1 /\ d < Len(str)

\* !isNaN(str) && !isNaN(parseFloat(str)) for unsigned decimal numerals
isValidNumber(str) == Len(str) > 0 /\ \A i \in 1..Len(str) : str[i] \in DigitSet

SecretThreshold == 32

PasswordThreshold == 16

\* the finding with the thresholds taken inclusively (<= 32, <= 16)
SecretFindingInclusive(key, value) ==
    IF Len(value) = 0
    THEN [issues |-> <<<<"E","M","P","T","Y",":"," ">> \o key \o <<" ","i","s"," ","e","m","p","t","y">>>>, warnings |-> <<>>]
    ELSE IF Len(value) <= SecretThreshold /\ includes(toUpperCase(key), <<"S","E","C","R","E","T">>)
    THEN [issues |-> <<<<"W","E","A","K"," ","S","E","C","R","E","T",":"," ">> \o key \o <<" ","(","l","e","n","g","t","h"," ","<"," ","3","2",")">>>>, warnings |-> <<>>]
    ELSE IF Len(value) <= PasswordThreshold /\ TestAnyCI(key, {<<"p","a","s","s","w","o","r","d">>, <<"k","e","y">>})
    THEN [issues |-> <<>>,
          warnings |-> <<<<"W","E","A","K",":"," ">> \o key \o <<" ","m","i","g","h","t"," ","b","e"," ","t","o","o"," ","s","h","o","r","t"," ","(","l","e","n","g","t","h"," ","<"," ","1","6",")">>>>]
    ELSE [issues |-> <<>>, warnings |-> <<>>]

\* the finding with the two length checks made independently
SecretFindingCumulative(key, value) ==
    IF Len(value) = 0
    THEN [issues |-> <<<<"E","M","P","T","Y",":"," ">> \o key \o <<" ","i","s"," ","e","m","p","t","y">>>>, warnings |-> <<>>]
    ELSE [issues |-> IF Len(value) < SecretThreshold /\ includes(toUpperCase(key), <<"S","E","C","R","E","T">>)
                     THEN <<<<"W","E","A","K"," ","S","E","C","R","E","T",":"," ">> \o key \o <<" ","(","l","e","n","g","t","h"," ","<"," ","3","2",")">>>> ELSE <<>>,
          warnings |-> IF Len(value) < PasswordThreshold /\ TestAnyCI(key, {<<"p","a","s","s","w","o","r","d">>, <<"k","e","y">>})
                       THEN <<<<"W","E","A","K",":"," ">> \o key \o <<" ","m","i","g","h","t"," ","b","e"," ","t","o","o"," ","s","h","o","r","t"," ","(","l","e","n","g","t","h"," ","<"," ","1","6",")">>>>
                       ELSE <<>>]

\* secretKeys.forEach(key => ...): the finding of one secret-like key, an
\* issue, a warning or nothing
SecretFinding(key, value) ==
    IF Len(value) = 0
    THEN [issues |-> <<<<"E","M","P","T","Y",":"," ">> \o key \o <<" ","i","s"," ","e","m","p","t","y">>>>, warnings |-> <<>>]
    ELSE IF Len(value) < SecretThreshold /\ includes(toUpperCase(key), <<"S","E","C","R","E","T">>)
    THEN [issues |-> <<<<"W","E","A","K"," ","S","E","C","R","E","T",":"," ">> \o key \o <<" ","(","l","e","n","g","t","h"," ","<"," ","3","2",")">>>>, warnings |-> <<>>]
    ELSE IF Len(value) < PasswordThreshold /\ TestAnyCI(key, {<<"p","a","s","s","w","o","r","d">>, <<"k","e","y">>})
    THEN [issues |-> <<>>,
          warnings |-> <<<<"W","E","A","K",":"," ">> \o key \o <<" ","m","i","g","h","t"," ","b","e"," ","t","o","o"," ","s","h","o","r","t"," ","(","l","e","n","g","t","h"," ","<"," ","1","6",")">>>>]
    ELSE [issues |-> <<>>, warnings |-> <<>>]

\* Object.keys(actualVars).forEach(key => ...): URL, EMAIL, PORT checks
TypeWarnings(key, value) ==
    (IF /\ includes(key, <<"U","R","L">>) /\ Len(value) > 0
        /\ ~isValidUrl(value) /\ ~startsWith(value, <<"$","{">>)
     THEN <<<<"I","N","V","A","L","I","D"," ","U","R","L",":"," ">> \o key \o <<" ","d","o","e","s"," ","n","o","t"," ","a","p","p","e","a","r"," ","t","o"," ","b","e"," ","a"," ","v","a","l","i","d"," ","U","R","L">>>> ELSE <<>>)
    \o
    (IF /\ includes(key, <<"E","M","A","I","L">>) /\ Len(value) > 0
        /\ ~isValidEmail(value) /\ ~startsWith(value, <<"$","{">>)
     THEN <<<<"I","N","V","A","L","I","D"," ","E","M","A","I","L",":"," ">> \o key \o <<" ","d","o","e","s"," ","n","o","t"," ","a","p","p","e","a","r"," ","t","o"," ","b","e"," ","a"," ","v","a","l","i","d"," ","e","m","a","i","l">>>> ELSE <<>>)
    \o
    (IF includes(key, <<"P","O","R","T">>) /\ Len(value) > 0 /\ ~isValidNumber(value)
     THEN <<<<"I","N","V","A","L","I","D"," ","P","O","R","T",":"," ">> \o key \o <<" ","s","h","o","u","l","d"," ","b","e"," ","a"," ","n","u","m","b","e","r">>>> ELSE <<>>)

validateEnv(p) ==
    LET envExists        == p.env.exists
        envExampleExists == p.envExample.exists
        expectedVars == IF envExampleExists THEN parseEnvFile(p.envExample.content) ELSE <<>>
        actualVars   == IF envExists THEN parseEnvFile(p.env.content) ELSE <<>>
        missingVars  == SelectSeq(Keys(expectedVars), LAMBDA k : ~In(k, actualVars))
        secretKeys   == SelectSeq(Keys(actualVars),
                          LAMBDA k : TestAnyCI(k, {<<"s","e","c","r","e","t">>, <<"k","e","y">>, <<"p","a","s","s","w","o","r","d">>, <<"t","o","k","e","n">>}))
        unusedVars   == SelectSeq(Keys(actualVars),
                          LAMBDA k : ~In(k, expectedVars) /\ ~startsWith(k, <<"#">>))
        issues ==
            (IF ~envExists THEN <<<<"M","I","S","S","I","N","G",":"," ",".","e","n","v"," ","f","i","l","e"," ","n","o","t"," ","f","o","u","n","d">>>> ELSE <<>>)
            \o [i \in 1..Len(missingVars) |-> <<"M","I","S","S","I","N","G",":"," ">> \o missingVars[i]]
            \o FlatMap(LAMBDA k : SecretFinding(k, Get(actualVars, k)).issues, secretKeys)
        warnings ==
            (IF ~envExampleExists
             THEN <<<<"W","A","R","N","I","N","G",":"," ",".","e","n","v",".","e","x","a","m","p","l","e"," ","f","i","l","e"," ","n","o","t"," ","f","o","u","n","d"," ","(","r","e","c","o","m","m","e","n","d","e","d"," ","f","o","r"," ","t","e","a","m"," ","c","o","l","l","a","b","o","r","a","t","i","o","n",")">>>>
             ELSE <<>>)
            \o FlatMap(LAMBDA k : SecretFinding(k, Get(actualVars, k)).warnings, secretKeys)
            \o (IF envExampleExists /\ Len(unusedVars) > 0
                THEN <<<<"U","N","U","S","E","D",":"," ","V","a","r","i","a","b","l","e","s"," ","i","n"," ",".","e","n","v"," ","b","u","t"," ","n","o","t"," ","i","n"," ",".","e","n","v",".","e","x","a","m","p","l","e",":"," ">>
                        \o join(unusedVars, <<","," ">>)>>
                ELSE <<>>)
            \o FlatMap(LAMBDA k : TypeWarnings(k, Get(actualVars, k)), Keys(actualVars))
    IN  Verdict(issues, warnings)

(***************************************************************************)
(* src/modules/auth.js                                                     *)
(***************************************************************************)
\* Number -> decimal text, as a template literal prints it
RECURSIVE NumberToString(_)
NumberToString(n) ==
    IF n < 10 THEN <<Digits[n + 1]>> ELSE NumberToString(n \div 10) \o <<Digits[(n % 10) + 1]>>

formatDuration(seconds) ==
    IF seconds < 60 THEN NumberToString(seconds) \o <<" ","s","e","c","o","n","d","s">>
    ELSE IF seconds < 3600 THEN NumberToString(seconds \div 60) \o <<" ","m","i","n","u","t","e","s">>
    ELSE IF seconds < 86400 THEN NumberToString(seconds \div 3600) \o <<" ","h","o","u","r","s">>
    ELSE IF seconds < 2592000 THEN NumberToString(seconds \div 86400) \o <<" ","d","a","y","s">>
    ELSE IF seconds < 31536000 THEN NumberToString(seconds \div 2592000) \o <<" ","m","o","n","t","h","s">>
    ELSE NumberToString(seconds \div 31536000) \o <<" ","y","e","a","r","s">>

\* /\/api\/v\d+\/.*(?:user|admin|auth|profile|settings)/i
VersionedApiPath(path) ==
    \E i \in 1..Len(path) :
        /\ MatchAtCI(path, i, <<"/","a","p","i","/","v">>)
        /\ LET d == RunEnd(path, i + 6, DigitSet)
           IN  /\ d > i + 6
               /\ d <= Len(path)
               /\ path[d] = "/"
               /\ \E j \in (d + 1)..Len(path) :
                     /\ \E w \in {<<"u","s","e","r">>, <<"a","d","m","i","n">>, <<"a","u","t","h">>, <<"p","r","o","f","i","l","e">>, <<"s","e","t","t","i","n","g","s">>} :
                           MatchAtCI(path, j, w)
                     /\ \A k \in (d + 1)..(j - 1) : path[k] \notin {"\n", "\r"}

isSensitiveRoute(path) ==
    \/ MatchAtCI(path, 1, <<"/","a","d","m","i","n">>)
    \/ MatchAtCI(path, 1, <<"/","a","p","i","/","a","d","m","i","n">>)
    \/ TestAnyCI(path, {<<"/","u","s","e","r","s">>, <<"/","p","r","o","f","i","l","e">>, <<"/","s","e","t","t","i","n","g","s">>, <<"/","a","c","c","o","u","n","t">>, <<"/","d","a","s","h","b","o","a","r","d">>,
                        <<"/","d","e","l","e","t","e">>, <<"/","u","p","d","a","t","e">>, <<"/","c","r","e","a","t","e">>, <<"/","e","d","i","t">>, <<"/","p","a","s","s","w","o","r","d">>,
                        <<"/","a","u","t","h","/","c","h","a","n","g","e">>})
    \/ VersionedApiPath(path)

AuthRouteGlobs ==
    <<Glob({<<"r","o","u","t","e","s">>}, "any", {}, JsTsx),
      Glob({}, "oneOf", {<<"r","o","u","t","e","s">>}, JsTsx),
      Glob({<<"a","p","i">>}, "any", {}, JsTsx),
      Glob({<<"c","o","n","t","r","o","l","l","e","r","s">>}, "any", {}, JsTsx),
      Glob({<<"s","r","c">>}, "any", {}, JsTsx)>>

\* routeFiles: the files of every pattern, one after another; the main app
\* files when there are none
RouteFiles(globs, p) ==
    LET orMain(routeFiles) ==
            IF Len(routeFiles) = 0 THEN findFiles(MainAppGlob, p) ELSE routeFiles
    IN  orMain(findAll(globs, p))

maxRecommendedExpiry == 7 * 24 * 60 * 60

oneYearInSeconds == 365 * 24 * 60 * 60

\* routes.forEach(route => ...): the vulnerable routes of one file
VulnerableIn(f) ==
    LET pushed(unprotected, file) ==
            [i \in 1..Len(unprotected) |->
                [method |-> unprotected[i].method, path |-> unprotected[i].path,
                 file |-> file, line |-> unprotected[i].line]]
    IN  pushed(SelectSeq(extractRoutes(f.content),
                         LAMBDA r : isSensitiveRoute(r.path)
                                    /\ ~hasAuthMiddleware(f.content, r.line)),
               relative(f))

MissingAuthMsg(v) ==
    <<"R","o","u","t","e"," ">> \o v.method \o <<" ">> \o v.path \o <<" ","m","i","s","s","i","n","g"," ","a","u","t","h"," ","m","i","d","d","l","e","w","a","r","e"," ","(">> \o v.file \o <<")">>

\* the JWT expiry check with the one-year limit taken inclusively
JwtFindingInclusive(code) ==
    LET finding(jwtExpiry) ==
            IF ~jwtExpiry.found THEN [issues |-> <<>>, warnings |-> <<>>]
            ELSE IF jwtExpiry.seconds >= oneYearInSeconds
            THEN [issues |-> <<<<"J","W","T"," ","e","x","p","i","r","y"," ","t","o","o"," ","l","o","n","g",":"," ">> \o formatDuration(jwtExpiry.seconds)
                                \o <<" ","(","r","e","c","o","m","m","e","n","d","e","d",":"," ","<"," ","7"," ","d","a","y","s",")">>>>,
                  warnings |-> <<>>]
            ELSE IF jwtExpiry.seconds > maxRecommendedExpiry
            THEN [issues |-> <<>>,
                  warnings |-> <<<<"J","W","T"," ","e","x","p","i","r","y"," ","i","s"," ">> \o formatDuration(jwtExpiry.seconds)
                                  \o <<" ","(","r","e","c","o","m","m","e","n","d","e","d",":"," ","<"," ","7"," ","d","a","y","s",")">>>>]
            ELSE [issues |-> <<>>, warnings |-> <<>>]
    IN  finding(extractJWTExpiry(code))

\* the JWT expiry check of one file
JwtFinding(code) ==
    LET finding(jwtExpiry) ==
            IF ~jwtExpiry.found THEN [issues |-> <<>>, warnings |-> <<>>]
            ELSE IF jwtExpiry.seconds > oneYearInSeconds
            THEN [issues |-> <<<<"J","W","T"," ","e","x","p","i","r","y"," ","t","o","o"," ","l","o","n","g",":"," ">> \o formatDuration(jwtExpiry.seconds)
                                \o <<" ","(","r","e","c","o","m","m","e","n","d","e","d",":"," ","<"," ","7"," ","d","a","y","s",")">>>>,
                  warnings |-> <<>>]
            ELSE IF jwtExpiry.seconds > maxRecommendedExpiry
            THEN [issues |-> <<>>,
                  warnings |-> <<<<"J","W","T"," ","e","x","p","i","r","y"," ","i","s"," ">> \o formatDuration(jwtExpiry.seconds)
                                  \o <<" ","(","r","e","c","o","m","m","e","n","d","e","d",":"," ","<"," ","7"," ","d","a","y","s",")">>>>]
            ELSE [issues |-> <<>>, warnings |-> <<>>]
    IN  finding(extractJWTExpiry(code))

\* for (const filePath of routeFiles) { ... }: what one file adds to
\* issues, warnings and vulnerableRoutes
AuthFile(f) ==
    LET added(vulnerable, jwt) ==
            [issues   |-> [i \in 1..Len(vulnerable) |-> MissingAuthMsg(vulnerable[i])]
                          \o jwt.issues,
             warnings |-> jwt.warnings,
             vulnerableRoutes |-> vulnerable]
    IN  IF Len(f.content) = 0
        THEN [issues |-> <<>>, warnings |-> <<>>, vulnerableRoutes |-> <<>>]
        ELSE added(VulnerableIn(f), JwtFinding(f.content))

\* the lists after the loop over routeFiles
RECURSIVE AuthFiles(_)
AuthFiles(routeFiles) ==
    LET more(one, rest) ==
            [issues   |-> one.issues \o rest.issues,
             warnings |-> one.warnings \o rest.warnings,
             vulnerableRoutes |-> one.vulnerableRoutes \o rest.vulnerableRoutes]
    IN  IF Len(routeFiles) = 0
        THEN [issues |-> <<>>, warnings |-> <<>>, vulnerableRoutes |-> <<>>]
        ELSE more(AuthFile(Head(routeFiles)), AuthFiles(Tail(routeFiles)))

NoRoutesMsg == <<"N","o"," ","r","o","u","t","e"," ","f","i","l","e","s"," ","f","o","u","n","d","."," ","M","a","k","e"," ","s","u","r","e"," ","y","o","u","r"," ","p","r","o","j","e","c","t"," ","s","t","r","u","c","t","u","r","e"," ","i","s"," ","s","t","a","n","d","a","r","d",".">>

validateAuth(p) ==
    LET returned(routeFiles, all) ==
            IF Len(routeFiles) = 0
            THEN [Result(FALSE, <<>>, <<NoRoutesMsg>>) EXCEPT !.data = <<>>]
            ELSE IF Len(all.issues) = 0 /\ Len(all.warnings) = 0
            THEN Result(TRUE, <<>>, <<>>)
            ELSE [Result(Len(all.issues) = 0, all.issues, all.warnings)
                     EXCEPT !.data = all.vulnerableRoutes]
        scanned(routeFiles) == returned(routeFiles, AuthFiles(routeFiles))
    IN  scanned(RouteFiles(AuthRouteGlobs, p))

(***************************************************************************)
(* src/modules/api.js                                                      *)
(***************************************************************************)
ApiRouteGlobs ==
    <<Glob({<<"r","o","u","t","e","s">>}, "any", {}, JsTsx),
      Glob({}, "oneOf", {<<"r","o","u","t","e","s">>}, JsTsx),
      Glob({<<"a","p","i">>}, "any", {}, JsTsx),
      Glob({<<"s","r","c">>}, "any", {}, JsTsx)>>

healthPatterns == {<<"/","h","e","a","l","t","h">>, <<"/","h","e","a","l","t","h","z">>, <<"/","p","i","n","g">>, <<"/","s","t","a","t","u","s">>, <<"/","a","p","i","/","h","e","a","l","t","h">>}

\* route.path === pattern || route.path.startsWith(pattern + '/')
IsHealthPath(path) ==
    \E h \in healthPatterns : path = h \/ startsWith(path, h \o <<"/">>)

\* the routes of one file, each with its file
ApiFileRoutes(f) ==
    LET pushed(routes, file) ==
            [i \in 1..Len(routes) |->
                [method |-> routes[i].method, path |-> routes[i].path,
                 line |-> routes[i].line, file |-> file]]
    IN  IF Len(f.content) = 0 THEN <<>> ELSE pushed(extractRoutes(f.content), relative(f))

\* Object.keys(routesByPath): the distinct paths in order of first occurrence
RECURSIVE DistinctPaths(_, _)
DistinctPaths(routes, seen) ==
    IF Len(routes) = 0 THEN <<>>
    ELSE IF Head(routes).path \in seen THEN DistinctPaths(Tail(routes), seen)
    ELSE <<Head(routes).path>> \o DistinctPaths(Tail(routes), seen \cup {Head(routes).path})

\* routesByPath[path]: the methods registered for a path, in order
MethodsOf(routes, path) ==
    LET methods(same) == [i \in 1..Len(same) |-> same[i].method]
    IN  methods(SelectSeq(routes, LAMBDA r : r.path = path))

\* a path is its own collection
collectionPathWhole(path) == path

\* path.replace(/\/[^/]+$/, '')
collectionPath(path) ==
    LET stripped(slashes) ==
            IF slashes = {} \/ Max(slashes) = Len(path) THEN path
            ELSE SubSeq(path, 1, Max(slashes) - 1)
    IN  stripped(Positions(path, "/"))

\* the REST consistency warnings of one path
PathWarnings(routes, path) ==
    LET firstPutPatch(ordered) ==
            ordered[Min({i \in 1..Len(ordered) : ordered[i] \in {<<"P","U","T">>, <<"P","A","T","C","H">>}})]
        checked(ordered, methods, collection) ==
            (IF /\ <<"P","O","S","T">> \in methods
                /\ <<"G","E","T">> \notin methods
                /\ collection # path
                /\ <<"G","E","T">> \notin Range(MethodsOf(routes, collection))
             THEN <<<<"P","O","S","T"," ">> \o path \o <<" ","e","x","i","s","t","s"," ","b","u","t"," ","n","o"," ","G","E","T"," ","e","n","d","p","o","i","n","t"," ","f","o","r"," ","c","o","l","l","e","c","t","i","o","n">>>>
             ELSE <<>>)
            \o
            (IF (<<"P","U","T">> \in methods \/ <<"P","A","T","C","H">> \in methods) /\ <<"G","E","T">> \notin methods
             THEN <<firstPutPatch(ordered) \o <<" ">> \o path \o <<" ","e","x","i","s","t","s"," ","b","u","t"," ","n","o"," ","G","E","T"," ","e","n","d","p","o","i","n","t">>>>
             ELSE <<>>)
        grouped(ordered) == checked(ordered, Range(ordered), collectionPath(path))
    IN  grouped(MethodsOf(routes, path))

\* routesByPath is an object literal: for a path that names an inherited
\* property routesByPath[path] is that property, which has no push, and for
\* a collection path that names one it has no includes: a TypeError
GroupingThrows(routes) ==
    \/ \E i \in 1..Len(routes) : routes[i].path \in ObjectPrototypeKeys
    \/ \E i \in 1..Len(routes) :
          LET throws(path, methods) ==
                  /\ <<"P","O","S","T">> \in methods
                  /\ <<"G","E","T">> \notin methods
                  /\ collectionPath(path) # path
                  /\ collectionPath(path) \in ObjectPrototypeKeys
          IN  throws(routes[i].path, Range(MethodsOf(routes, routes[i].path)))

HealthMissingMsg == <<"/","h","e","a","l","t","h"," ","e","n","d","p","o","i","n","t"," ","m","i","s","s","i","n","g"," ","(","r","e","c","o","m","m","e","n","d","e","d"," ","f","o","r"," ","m","o","n","i","t","o","r","i","n","g"," ","a","n","d"," ","l","o","a","d"," ","b","a","l","a","n","c","e","r","s",")">>

validateApi(p) ==
    LET returned(allRoutes, issues, warnings) ==
            [Result(Len(issues) = 0, issues, warnings) EXCEPT !.data = allRoutes]
        grouped(allRoutes, hasHealthEndpoint) ==
            IF GroupingThrows(allRoutes) THEN Threw
            ELSE returned(allRoutes,
                          IF hasHealthEndpoint THEN <<>> ELSE <<HealthMissingMsg>>,
                          FlatMap(LAMBDA path : PathWarnings(allRoutes, path),
                                  DistinctPaths(allRoutes, {})))
        collected(allRoutes) ==
            grouped(allRoutes, \E i \in 1..Len(allRoutes) : IsHealthPath(allRoutes[i].path))
        scanned(routeFiles) ==
            IF Len(routeFiles) = 0
            THEN Result(FALSE, <<>>, <<NoRoutesMsg>>)
            ELSE collected(FlatMap(ApiFileRoutes, routeFiles))
    IN  scanned(RouteFiles(ApiRouteGlobs, p))

(***************************************************************************)
(* package.json, as the validators see it                                  *)
(*                                                                         *)
(* pkg.kind says what readFile and JSON.parse make of the file:            *)
(*   "unreadable"  readFile returns null                                   *)
(*   "empty"       the empty text                                          *)
(*   "malformed"   JSON.parse throws a SyntaxError                         *)
(*   "null"        JSON.parse returns null                                 *)
(*   "object"      JSON.parse returns an object with the fields below      *)
(***************************************************************************)
\* if (packageJsonContent) { try { packageJson = JSON.parse(...) } catch {} }
\* the value of packageJson afterwards: "object", "null" or "{}"
LenientParse(pkg) ==
    IF ~pkg.exists \/ pkg.kind \in {"unreadable", "empty", "malformed"} THEN "{}"
    ELSE pkg.kind

\* { ...packageJson.dependencies, ...packageJson.devDependencies }
Merge(a, b) == [k \in DOMAIN a \cup DOMAIN b |-> IF k \in DOMAIN b THEN b[k] ELSE a[k]]

EmptyDeps == [k \in {} |-> <<>>]

DepsOf(pkg, parsed) ==
    IF parsed = "object" THEN Merge(pkg.dependencies, pkg.devDependencies) ELSE EmptyDeps

\* deps[name] is truthy
HasDep(deps, name) == name \in DOMAIN deps /\ Len(deps[name]) > 0

\* the first n elements: files.slice(0, n)
FirstN(s, n) == SubSeq(s, 1, IF Len(s) < n THEN Len(s) ELSE n)

(***************************************************************************)
(* src/modules/project.js                                                  *)
(***************************************************************************)
ReadmeMinLength == 100

expectedFolders == {<<"s","r","c">>, <<"r","o","u","t","e","s">>, <<"c","o","n","f","i","g">>, <<"m","i","d","d","l","e","w","a","r","e">>, <<"c","o","n","t","r","o","l","l","e","r","s">>, <<"m","o","d","e","l","s">>}

errorHandlerPatterns ==
    <<Glob({<<"m","i","d","d","l","e","w","a","r","e">>}, "any", {}, JsTs),
      Glob({}, "oneOf", {<<"m","i","d","d","l","e","w","a","r","e">>}, JsTs),
      Glob({}, "prefix", {<<"e","r","r","o","r">>}, JsTs),
      Glob({<<"s","r","c">>}, "any", {}, JsTs)>>

ErrorFileCap == 10

MainFileCap == 3

\* the README checks
ReadmeIssues(p) ==
    IF \E i \in 1..Len(p.readmes) : p.readmes[i].exists THEN <<>> ELSE <<<<"R","E","A","D","M","E"," ","m","i","s","s","i","n","g">>>>

ReadmeWarnings(p) ==
    IF ~\E i \in 1..Len(p.readmes) : p.readmes[i].exists THEN <<>>
    ELSE LET readmeContent == p.readmes[Min({i \in 1..Len(p.readmes) : p.readmes[i].exists})].content
         IN  IF ~(Len(readmeContent) > ReadmeMinLength)
             THEN <<<<"R","E","A","D","M","E"," ","e","x","i","s","t","s"," ","b","u","t"," ","s","e","e","m","s"," ","t","o","o"," ","s","h","o","r","t"," ","o","r"," ","e","m","p","t","y">>>>
             ELSE IF /\ ~TestAnyCI(readmeContent, {<<"i","n","s","t","a","l","l">>, <<"s","e","t","u","p">>, <<"g","e","t","t","i","n","g"," ","s","t","a","r","t","e","d">>})
                     /\ ~TestAnyCI(readmeContent, {<<"u","s","a","g","e">>, <<"h","o","w"," ","t","o">>, <<"e","x","a","m","p","l","e">>})
             THEN <<<<"R","E","A","D","M","E"," ","m","i","s","s","i","n","g"," ","i","n","s","t","a","l","l","a","t","i","o","n"," ","o","r"," ","u","s","a","g","e"," ","i","n","s","t","r","u","c","t","i","o","n","s">>>>
             ELSE <<>>

\* some file of the pattern has error handling, wherever it stands
HandlerInAll(files, cap) ==
    \E i \in 1..Len(files) :
        Len(files[i].content) > 0 /\ hasErrorHandling(files[i].content)

\* some file among the first cap files of the pattern has error handling
HandlerIn(files, cap) ==
    \E i \in 1..Len(FirstN(files, cap)) :
        Len(files[i].content) > 0 /\ hasErrorHandling(files[i].content)

hasGlobalErrorHandler(p) ==
    \/ \E k \in 1..Len(errorHandlerPatterns) :
          HandlerIn(findFiles(errorHandlerPatterns[k], p), ErrorFileCap)
    \/ HandlerIn(findFiles(MainAppGlob, p), MainFileCap)

\* the package.json checks of the project validator
PackageIssues(p) == IF ~p.pkg.exists THEN <<<<"p","a","c","k","a","g","e",".","j","s","o","n"," ","m","i","s","s","i","n","g">>>> ELSE <<>>

PackageWarnings(p) ==
    IF ~p.pkg.exists \/ p.pkg.kind \in {"unreadable", "empty"} THEN <<>>
    ELSE IF p.pkg.kind \in {"malformed", "null"} THEN <<<<"p","a","c","k","a","g","e",".","j","s","o","n"," ","m","i","g","h","t"," ","b","e"," ","m","a","l","f","o","r","m","e","d">>>>
    ELSE (IF Len(p.pkg.start) = 0 THEN <<<<"p","a","c","k","a","g","e",".","j","s","o","n"," ","m","i","s","s","i","n","g"," ","\"","s","t","a","r","t","\""," ","s","c","r","i","p","t">>>> ELSE <<>>)
         \o (IF ~p.pkg.description
             THEN <<<<"p","a","c","k","a","g","e",".","j","s","o","n"," ","m","i","s","s","i","n","g"," ","\"","d","e","s","c","r","i","p","t","i","o","n","\""," ","f","i","e","l","d">>>> ELSE <<>>)

validateProject(p) ==
    LET issues ==
            (IF ~p.envExample.exists
             THEN <<<<".","e","n","v",".","e","x","a","m","p","l","e"," ","m","i","s","s","i","n","g"," ","(","r","e","q","u","i","r","e","d"," ","f","o","r"," ","t","e","a","m"," ","c","o","l","l","a","b","o","r","a","t","i","o","n",")">>>> ELSE <<>>)
            \o ReadmeIssues(p)
            \o (IF ~hasGlobalErrorHandler(p)
                THEN <<<<"E","r","r","o","r"," ","h","a","n","d","l","i","n","g"," ","m","i","d","d","l","e","w","a","r","e"," ","n","o","t"," ","f","o","u","n","d"," ","(","r","e","c","o","m","m","e","n","d","e","d",":"," ","g","l","o","b","a","l"," ","e","r","r","o","r"," ","h","a","n","d","l","e","r",")">>>>
                ELSE <<>>)
            \o PackageIssues(p)
        warnings ==
            ReadmeWarnings(p)
            \o (IF p.folders \cap expectedFolders = {}
                THEN <<<<"N","o"," ","s","t","a","n","d","a","r","d"," ","p","r","o","j","e","c","t"," ","s","t","r","u","c","t","u","r","e"," ","d","e","t","e","c","t","e","d"," ","(","s","r","c","/",","," ","r","o","u","t","e","s","/",","," ","e","t","c",".",")">>>>
                ELSE <<>>)
            \o PackageWarnings(p)
    IN  Verdict(issues, warnings)

(***************************************************************************)
(* src/modules/security.js                                                 *)
(***************************************************************************)
SecurityScanCap == 20

AntiPatternCap == 10

SecurityFiles(p) ==
    findFiles(MainAppGlob, p)
    \o findFiles(Glob({<<"c","o","n","f","i","g">>}, "any", {}, JsTs), p)
    \o findFiles(Glob({<<"m","i","d","d","l","e","w","a","r","e">>}, "any", {}, JsTs), p)

\* /origin\s*:\s*['"]\*['"]/i
WildcardOrigin(text) ==
    \E i \in 1..Len(text) :
        /\ MatchAtCI(text, i, <<"o","r","i","g","i","n">>)
        /\ LET c == RunEnd(text, i + 6, WhiteSpace)
               q == RunEnd(text, c + 1, WhiteSpace)
           IN  /\ q + 2 <= Len(text)
               /\ text[c] = ":"
               /\ text[q] \in {"'", "\""}
               /\ text[q + 1] = "*"
               /\ text[q + 2] \in {"'", "\""}

\* code.match(/cors\s*\([^)]*\)/i): the leftmost "cors", white space, a
\* parenthesis and its text up to the first closing parenthesis
CorsCallAt(code, i) ==
    /\ MatchAtCI(code, i, <<"c","o","r","s">>)
    /\ LET o == RunEnd(code, i + 4, WhiteSpace)
       IN  o <= Len(code) /\ code[o] = "(" /\ NextOf(code, o + 1, {")"}) <= Len(code)

CorsIssues(code) ==
    LET calls == {i \in 1..Len(code) : CorsCallAt(code, i)}
        i     == Min(calls)
        corsConfig == SubSeq(code, i, NextOf(code, RunEnd(code, i + 4, WhiteSpace) + 1, {")"}))
    IN  IF includesCI(code, <<"c","o","r","s">>) /\ calls # {} /\ WildcardOrigin(corsConfig)
        THEN <<<<"C","O","R","S"," ","c","o","n","f","i","g","u","r","e","d"," ","w","i","t","h"," ","w","i","l","d","c","a","r","d"," ","o","r","i","g","i","n"," ","(","*",")"," ","-"," ","s","e","c","u","r","i","t","y"," ","r","i","s","k">>>>
        ELSE <<>>

hasHelmetIn(code) == includesCI(code, <<"h","e","l","m","e","t">>)

hasHeadersIn(code) ==
    \/ hasHelmetIn(code)
    \/ TestAnyCI(code, {<<"x","-","f","r","a","m","e","-","o","p","t","i","o","n","s">>, <<"x","-","c","o","n","t","e","n","t","-","t","y","p","e","-","o","p","t","i","o","n","s">>, <<"x","-","x","s","s","-","p","r","o","t","e","c","t","i","o","n">>,
                        <<"s","t","r","i","c","t","-","t","r","a","n","s","p","o","r","t","-","s","e","c","u","r","i","t","y">>})

hasRateLimitIn(code) ==
    TestAnyCI(code, {<<"r","a","t","e","l","i","m","i","t">>, <<"r","a","t","e","-","l","i","m","i","t">>, <<"e","x","p","r","e","s","s","-","r","a","t","e","-","l","i","m","i","t">>, <<"l","i","m","i","t","e","r">>})

WordChars == LetterSet \cup DigitSet \cup {"_"}

\* /\beval\s*\(/i
EvalCall(code) ==
    \E i \in 1..Len(code) :
        /\ MatchAtCI(code, i, <<"e","v","a","l">>)
        /\ i = 1 \/ code[i - 1] \notin WordChars
        /\ LET o == RunEnd(code, i + 4, WhiteSpace)
           IN  o <= Len(code) /\ code[o] = "("

\* /new RegExp\([^)]*\+/i
DynamicRegExp(code) ==
    \E i \in 1..Len(code) :
        /\ MatchAtCI(code, i, <<"n","e","w"," ","r","e","g","e","x","p","(">>)
        /\ \E j \in (i + 11)..Len(code) :
              code[j] = "+" /\ \A k \in (i + 11)..(j - 1) : code[k] # ")"

AntiPatternIssues(f) ==
    IF Len(f.content) > 0 /\ EvalCall(f.content)
    THEN <<<<"e","v","a","l","(",")"," ","u","s","a","g","e"," ","d","e","t","e","c","t","e","d"," ","i","n"," ">> \o relative(f) \o <<" ","-"," ","s","e","c","u","r","i","t","y"," ","r","i","s","k">>>> ELSE <<>>

AntiPatternWarnings(f) ==
    IF Len(f.content) > 0 /\ DynamicRegExp(f.content)
    THEN <<<<"D","y","n","a","m","i","c"," ","r","e","g","e","x"," ","c","o","n","s","t","r","u","c","t","i","o","n"," ","i","n"," ">> \o relative(f) \o <<" ","-"," ","p","o","t","e","n","t","i","a","l"," ","R","e","D","o","S"," ","r","i","s","k">>>>
    ELSE <<>>

\* every file is scanned for anti-patterns
AntiPatternFilesAll(allFiles) == allFiles

\* allFiles.slice(0, 10)
AntiPatternFiles(allFiles) == FirstN(allFiles, AntiPatternCap)

validateSecurity(p) ==
    LET allFiles == SecurityFiles(p)
        scanned  == SelectSeq(FirstN(allFiles, SecurityScanCap), LAMBDA f : Len(f.content) > 0)
        hasCORS  == \E i \in 1..Len(scanned) : includesCI(scanned[i].content, <<"c","o","r","s">>)
        hasHelmet == \E i \in 1..Len(scanned) : hasHelmetIn(scanned[i].content)
        hasSecurityHeaders == \E i \in 1..Len(scanned) : hasHeadersIn(scanned[i].content)
        hasRateLimit == \E i \in 1..Len(scanned) : hasRateLimitIn(scanned[i].content)
        parsed   == LenientParse(p.pkg)
        deps     == DepsOf(p.pkg, parsed)
        issues ==
            FlatMap(LAMBDA f : CorsIssues(f.content), scanned)
            \o (IF ~hasSecurityHeaders
                THEN <<<<"S","e","c","u","r","i","t","y"," ","h","e","a","d","e","r","s"," ","n","o","t"," ","c","o","n","f","i","g","u","r","e","d"," ","(","u","s","e"," ","H","e","l","m","e","t",".","j","s"," ","o","r"," ","c","o","n","f","i","g","u","r","e"," ","m","a","n","u","a","l","l","y",")">>>>
                ELSE <<>>)
            \o FlatMap(AntiPatternIssues, AntiPatternFiles(allFiles))
        warnings ==
            (IF ~HasDep(deps, <<"h","e","l","m","e","t">>) /\ ~hasHelmet
             THEN <<<<"S","e","c","u","r","i","t","y"," ","p","a","c","k","a","g","e"," ","\"","h","e","l","m","e","t","\""," ","n","o","t"," ","f","o","u","n","d"," ","(","r","e","c","o","m","m","e","n","d","e","d",":"," ","n","p","m"," ","i","n","s","t","a","l","l"," ","h","e","l","m","e","t",")">>>>
             ELSE <<>>)
            \o (IF ~hasCORS
                THEN <<<<"C","O","R","S"," ","m","i","d","d","l","e","w","a","r","e"," ","n","o","t"," ","d","e","t","e","c","t","e","d"," ","(","r","e","c","o","m","m","e","n","d","e","d"," ","f","o","r"," ","A","P","I"," ","s","e","c","u","r","i","t","y",")">>>>
                ELSE <<>>)
            \o (IF ~hasRateLimit
                THEN <<<<"R","a","t","e"," ","l","i","m","i","t","i","n","g"," ","n","o","t"," ","d","e","t","e","c","t","e","d"," ","(","r","e","c","o","m","m","e","n","d","e","d"," ","t","o"," ","p","r","e","v","e","n","t"," ","a","b","u","s","e",")">>>>
                ELSE <<>>)
            \o FlatMap(AntiPatternWarnings, AntiPatternFiles(allFiles))
    IN  IF parsed = "null" THEN Threw ELSE Verdict(issues, warnings)

(***************************************************************************)
(* src/modules/dependencies.js                                             *)
(***************************************************************************)
criticalDeps == {<<"e","x","p","r","e","s","s">>, <<"f","a","s","t","i","f","y">>, <<"k","o","a">>, <<"n","e","s","t","j","s">>}

securityPackages == <<<<"h","e","l","m","e","t">>, <<"c","o","r","s">>, <<"e","x","p","r","e","s","s","-","r","a","t","e","-","l","i","m","i","t">>, <<"b","c","r","y","p","t">>, <<"j","s","o","n","w","e","b","t","o","k","e","n">>>>

MinNodeMajor == 14

MaxDependencies == 100

\* deps[pkg].replace(/[\^~]/, ''): the first ^ or ~ is removed
StripRange(version) ==
    LET marks == {i \in 1..Len(version) : version[i] \in {"^", "~"}}
    IN  IF marks = {} THEN version
        ELSE SubSeq(version, 1, Min(marks) - 1) \o SubSeq(version, Min(marks) + 1, Len(version))

\* the warnings of a package.json that parsed to an object
DependencyWarnings(p) ==
    LET deps == Merge(p.pkg.dependencies, p.pkg.devDependencies)
        missingSecurity == SelectSeq(securityPackages, LAMBDA n : ~HasDep(deps, n))
    IN  (IF ~p.lock
         THEN <<<<"L","o","c","k"," ","f","i","l","e"," ","(","p","a","c","k","a","g","e","-","l","o","c","k",".","j","s","o","n"," ","o","r"," ","y","a","r","n",".","l","o","c","k",")"," ","n","o","t"," ","f","o","u","n","d"," ","(","r","e","c","o","m","m","e","n","d","e","d"," ","f","o","r"," ","r","e","p","r","o","d","u","c","i","b","l","e"," ","b","u","i","l","d","s",")">>>>
         ELSE <<>>)
        \o (IF ~\E d \in criticalDeps : HasDep(deps, d)
            THEN <<<<"N","o"," ","m","a","j","o","r"," ","w","e","b"," ","f","r","a","m","e","w","o","r","k"," ","d","e","t","e","c","t","e","d"," ","(","E","x","p","r","e","s","s",","," ","F","a","s","t","i","f","y",","," ","K","o","a",","," ","N","e","s","t","J","S",")">>>>
            ELSE <<>>)
        \o (IF p.nodeMajor < MinNodeMajor
            THEN <<<<"N","o","d","e",".","j","s"," ","v","e","r","s","i","o","n"," ","v">> \o NumberToString(p.nodeMajor)
                    \o <<" ","i","s"," ","o","u","t","d","a","t","e","d"," ","(","r","e","c","o","m","m","e","n","d","e","d",":"," ",">","="," ","1","4",".","0",".","0",")">>>>
            ELSE <<>>)
        \o (IF Len(missingSecurity) > 0
            THEN <<<<"M","i","s","s","i","n","g"," ","s","e","c","u","r","i","t","y"," ","p","a","c","k","a","g","e","s",":"," ">> \o join(missingSecurity, <<","," ">>)>>
            ELSE <<>>)
        \o (IF HasDep(deps, <<"e","x","p","r","e","s","s">>) /\ includes(StripRange(deps[<<"e","x","p","r","e","s","s">>]), <<"4",".">>)
            THEN <<<<"e","x","p","r","e","s","s"," ","v","e","r","s","i","o","n"," ","m","i","g","h","t"," ","b","e"," ","o","u","t","d","a","t","e","d"," ","-"," ","O","l","d","e","r"," ","v","e","r","s","i","o","n","s"," ","h","a","v","e"," ","s","e","c","u","r","i","t","y"," ","v","u","l","n","e","r","a","b","i","l","i","t","i","e","s">>>>
            ELSE <<>>)
        \o (IF Cardinality(DOMAIN deps) > MaxDependencies
            THEN <<<<"L","a","r","g","e"," ","n","u","m","b","e","r"," ","o","f"," ","d","e","p","e","n","d","e","n","c","i","e","s"," ","(">> \o NumberToString(Cardinality(DOMAIN deps))
                    \o <<")"," ","-"," ","c","o","n","s","i","d","e","r"," ","r","e","v","i","e","w","i","n","g"," ","f","o","r"," ","u","n","u","s","e","d"," ","p","a","c","k","a","g","e","s">>>>
            ELSE <<>>)
        \o (IF includes(p.pkg.start, <<"n","o","d","e","m","o","n">>) \/ includes(p.pkg.start, <<"t","s","-","n","o","d","e","-","d","e","v">>)
            THEN <<<<"D","e","v","e","l","o","p","m","e","n","t"," ","t","o","o","l","s"," ","i","n"," ","s","t","a","r","t"," ","s","c","r","i","p","t"," ","(","u","s","e"," ","p","r","o","d","u","c","t","i","o","n"," ","t","o","o","l","s"," ","i","n"," ","p","r","o","d","u","c","t","i","o","n",")">>>>
            ELSE <<>>)
        \o <<<<"R","u","n"," ","\"","n","p","m"," ","a","u","d","i","t","\""," ","t","o"," ","c","h","e","c","k"," ","f","o","r"," ","k","n","o","w","n"," ","v","u","l","n","e","r","a","b","i","l","i","t","i","e","s">>>>

\* the validator with a package.json that fails to parse taken as {}
validateDependenciesLenient(p) ==
    IF ~p.pkg.exists THEN Result(FALSE, <<<<"p","a","c","k","a","g","e",".","j","s","o","n"," ","n","o","t"," ","f","o","u","n","d">>>>, <<>>)
    ELSE IF p.pkg.kind \in {"empty", "malformed"}
    THEN Verdict(<<>>, DependencyWarnings(p))
    ELSE IF p.pkg.kind \in {"unreadable", "null"} THEN Threw
    ELSE Verdict(<<>>, DependencyWarnings(p))

validateDependencies(p) ==
    IF ~p.pkg.exists THEN Result(FALSE, <<<<"p","a","c","k","a","g","e",".","j","s","o","n"," ","n","o","t"," ","f","o","u","n","d">>>>, <<>>)
    ELSE IF p.pkg.kind \in {"empty", "malformed"}
    THEN Result(FALSE, <<<<"p","a","c","k","a","g","e",".","j","s","o","n"," ","i","s"," ","m","a","l","f","o","r","m","e","d">>>>, <<>>)
    \* JSON.parse(null) and JSON.parse("null") return null; packageJson.dependencies throws
    ELSE IF p.pkg.kind \in {"unreadable", "null"} THEN Threw
    ELSE Verdict(<<>>, DependencyWarnings(p))

(***************************************************************************)
(* src/modules/database.js                                                 *)
(***************************************************************************)
dbPackages ==
    <<[pkg |-> <<"m","o","n","g","o","o","s","e">>, type |-> <<"M","o","n","g","o","D","B">>],
      [pkg |-> <<"m","o","n","g","o","d","b">>, type |-> <<"M","o","n","g","o","D","B">>],
      [pkg |-> <<"p","g">>, type |-> <<"P","o","s","t","g","r","e","S","Q","L">>],
      [pkg |-> <<"m","y","s","q","l","2">>, type |-> <<"M","y","S","Q","L">>],
      [pkg |-> <<"m","y","s","q","l">>, type |-> <<"M","y","S","Q","L">>],
      [pkg |-> <<"r","e","d","i","s">>, type |-> <<"R","e","d","i","s">>],
      [pkg |-> <<"i","o","r","e","d","i","s">>, type |-> <<"R","e","d","i","s">>],
      [pkg |-> <<"p","r","i","s","m","a">>, type |-> <<"P","r","i","s","m","a"," ","O","R","M">>],
      [pkg |-> <<"s","e","q","u","e","l","i","z","e">>, type |-> <<"S","e","q","u","e","l","i","z","e"," ","O","R","M">>],
      [pkg |-> <<"t","y","p","e","o","r","m">>, type |-> <<"T","y","p","e","O","R","M">>]>>

DbFileCap == 10

\* /DATABASE|DB|MONGO|POSTGRES|MYSQL|REDIS/i.test(key)
IsDbKey(key) ==
    TestAnyCI(key, {<<"d","a","t","a","b","a","s","e">>, <<"d","b">>, <<"m","o","n","g","o">>, <<"p","o","s","t","g","r","e","s">>, <<"m","y","s","q","l">>, <<"r","e","d","i","s">>})

\* envVars.DATABASE_URL, '' when it is not set
DatabaseUrl(envVars) ==
    IF HasKey(envVars, <<"D","A","T","A","B","A","S","E","_","U","R","L">>) THEN Get(envVars, <<"D","A","T","A","B","A","S","E","_","U","R","L">>) ELSE <<>>

\* the database type read from DATABASE_URL, <<>> for null
UrlDbType(dbUrl) ==
    IF includesCI(dbUrl, <<"m","o","n","g","o","d","b">>) THEN <<"M","o","n","g","o","D","B">>
    ELSE IF includesCI(dbUrl, <<"p","o","s","t","g","r","e","s">>) THEN <<"P","o","s","t","g","r","e","S","Q","L">>
    ELSE IF includesCI(dbUrl, <<"m","y","s","q","l">>) THEN <<"M","y","S","Q","L">>
    ELSE IF includesCI(dbUrl, <<"r","e","d","i","s">>) THEN <<"R","e","d","i","s">>
    ELSE <<>>

\* every db and connection file is tested
DbScanFilesAll(p) ==
    findFiles(Glob({<<"d","b">>, <<"d","a","t","a","b","a","s","e">>, <<"c","o","n","f","i","g">>}, "any", {}, JsTs), p)
    \o findFiles(Glob({}, "contains", {<<"c","o","n","n","e","c","t","i","o","n">>}, JsTs), p)

\* the files whose content is tested for connection handling and pooling
DbScanFiles(p) ==
    FirstN(findFiles(Glob({<<"d","b">>, <<"d","a","t","a","b","a","s","e">>, <<"c","o","n","f","i","g">>}, "any", {}, JsTs), p)
           \o findFiles(Glob({}, "contains", {<<"c","o","n","n","e","c","t","i","o","n">>}, JsTs), p), DbFileCap)

\* the return statements of the database validator; hasDb is
\* hasDbConfig || detectedDbPackage
DbReturn(hasDb, issues, warnings, dbType) ==
    IF Len(issues) = 0 /\ Len(warnings) = 0 /\ hasDb
    THEN Result(TRUE, <<>>, <<>>)
    ELSE IF ~hasDb
    THEN [Result(TRUE, <<>>, <<>>) EXCEPT !.skipped = TRUE]
    ELSE [Result(Len(issues) = 0, issues, warnings) EXCEPT !.data = dbType]

validateDatabase(p) ==
    LET envVars == IF p.env.exists THEN parseEnvFile(p.env.content) ELSE <<>>
        hasDbConfig == \E i \in 1..Len(envVars) : IsDbKey(envVars[i].key)
        dbUrl    == DatabaseUrl(envVars)
        parsed   == LenientParse(p.pkg)
        deps     == DepsOf(p.pkg, parsed)
        found    == {i \in 1..Len(dbPackages) : HasDep(deps, dbPackages[i].pkg)}
        detectedDbPackage == found # {}
        dbType   == IF UrlDbType(dbUrl) # <<>> THEN UrlDbType(dbUrl)
                    ELSE IF found # {} THEN dbPackages[Min(found)].type ELSE <<>>
        hasConnectionFile ==
            \/ Len(findFiles(Glob({<<"d","b">>, <<"d","a","t","a","b","a","s","e">>, <<"c","o","n","f","i","g">>}, "any", {}, JsTs), p)) > 0
            \/ Len(findFiles(Glob({}, "contains", {<<"c","o","n","n","e","c","t","i","o","n">>}, JsTs), p)) > 0
        hasConnectionHandling ==
            \E i \in 1..Len(DbScanFiles(p)) :
                TestAnyCI(DbScanFiles(p)[i].content, {<<"c","a","t","c","h">>, <<"e","r","r","o","r">>, <<"o","n","(","'","e","r","r","o","r","'",")">>})
        hasPooling ==
            \E i \in 1..Len(DbScanFiles(p)) :
                LET code == DbScanFiles(p)[i].content
                IN  \/ includesCI(code, <<"p","o","o","l">>)
                    \/ \E a \in 1..Len(code) :
                          /\ MatchAtCI(code, a, <<"m","a","x">>)
                          /\ \E b \in (a + 3)..Len(code) :
                                /\ MatchAtCI(code, b, <<"c","o","n","n","e","c","t","i","o","n">>)
                                /\ \A k \in (a + 3)..(b - 1) : code[k] \notin {"\n", "\r"}
        migrationFiles ==
            findFiles(Glob({<<"m","i","g","r","a","t","i","o","n","s">>, <<"m","i","g","r","a","t","e">>}, "any", {}, {<<"j","s">>, <<"t","s">>, <<"s","q","l">>}), p)
        issues ==
            IF (hasDbConfig \/ detectedDbPackage) /\ ~hasConnectionHandling /\ hasConnectionFile
            THEN <<<<"D","a","t","a","b","a","s","e"," ","c","o","n","n","e","c","t","i","o","n"," ","e","r","r","o","r"," ","h","a","n","d","l","i","n","g"," ","n","o","t"," ","d","e","t","e","c","t","e","d">>>> ELSE <<>>
        warnings ==
            (IF ~hasDbConfig /\ ~detectedDbPackage
             THEN <<<<"N","o"," ","d","a","t","a","b","a","s","e"," ","c","o","n","f","i","g","u","r","a","t","i","o","n"," ","d","e","t","e","c","t","e","d">>>>
             ELSE (IF includes(dbUrl, <<"l","o","c","a","l","h","o","s","t">>) \/ includes(dbUrl, <<"1","2","7",".","0",".","0",".","1">>)
                   THEN <<<<"D","a","t","a","b","a","s","e"," ","U","R","L"," ","p","o","i","n","t","s"," ","t","o"," ","l","o","c","a","l","h","o","s","t"," ","(","e","n","s","u","r","e"," ","p","r","o","d","u","c","t","i","o","n"," ","u","s","e","s"," ","r","e","m","o","t","e"," ","d","a","t","a","b","a","s","e",")">>>>
                   ELSE <<>>)
                  \o (IF ~hasPooling /\ detectedDbPackage
                      THEN <<<<"C","o","n","n","e","c","t","i","o","n"," ","p","o","o","l","i","n","g"," ","n","o","t"," ","d","e","t","e","c","t","e","d"," ","(","r","e","c","o","m","m","e","n","d","e","d"," ","f","o","r"," ","p","r","o","d","u","c","t","i","o","n",")">>>>
                      ELSE <<>>))
            \o (IF Len(migrationFiles) = 0 /\ detectedDbPackage
                THEN <<<<"N","o"," ","m","i","g","r","a","t","i","o","n"," ","f","i","l","e","s"," ","d","e","t","e","c","t","e","d"," ","(","r","e","c","o","m","m","e","n","d","e","d"," ","f","o","r"," ","d","a","t","a","b","a","s","e"," ","v","e","r","s","i","o","n","i","n","g",")">>>>
                ELSE <<>>)
    IN  IF parsed = "null" THEN Threw
        ELSE DbReturn(hasDbConfig \/ detectedDbPackage, issues, warnings, dbType)

(***************************************************************************)
(* src/modules/report.js                                                   *)
(***************************************************************************)
\* Object.entries(allModules): the fixed module order
ModuleOrder == <<"env", "auth", "api", "project", "security", "dependencies", "database">>

ModuleNames == Range(ModuleOrder)

\* the verdict taken over all seven modules, a skipped one counting as failed
allPassedOfAll(res) == \A m \in ModuleNames : m \in DOMAIN res /\ res[m].passed

\* Object.values(results).every(result => result.passed)
allPassed(res) == \A m \in DOMAIN res : res[m].passed

\* Object.values(results).reduce((sum, result) => sum + (result.issues?.length || 0), 0)
RECURSIVE SumOver(_, _, _)
SumOver(res, names, field) ==
    IF Len(names) = 0 THEN 0
    ELSE (IF Head(names) \in DOMAIN res THEN Len(res[Head(names)][field]) ELSE 0)
         + SumOver(res, Tail(names), field)

\* warnings counted as issues
totalIssuesWithWarnings(res) ==
    SumOver(res, ModuleOrder, "issues") + SumOver(res, ModuleOrder, "warnings")

totalIssues(res) == SumOver(res, ModuleOrder, "issues")

totalWarnings(res) == SumOver(res, ModuleOrder, "warnings")

NoResults == [m \in {} |-> Threw]

NoReport == [done |-> FALSE]

\* no command has exited yet
NoExit == -1

NoInput == [fn |-> "none"]

NoOutput == [called |-> FALSE]

\* the loop taken over the modules with api ahead of auth
NextPcApiFirst(name) ==
    LET order == <<"env", "api", "auth", "project", "security", "dependencies", "database">>
        after(i) == IF i = Len(order) THEN "summary" ELSE order[i + 1]
    IN  after(CHOOSE k \in 1..Len(order) : order[k] = name)

\* the module after name in Object.entries(allModules), "summary" after the last
NextPc(name) ==
    LET after(i) == IF i = Len(ModuleOrder) THEN "summary" ELSE ModuleOrder[i + 1]
    IN  after(CHOOSE k \in 1..Len(ModuleOrder) : ModuleOrder[k] = name)

\* one iteration of  for (const [name, module] of Object.entries(allModules))
\*   if (!skip.includes(name)) results[name] = await module.validate(projectPath)
\* an exception of validate rejects generate
\* r is what module.validate(projectPath) returns
RunModule(name, r) ==
    /\ options.cmd = "report"
    /\ pc = name
    /\ IF name \in options.skip
       THEN /\ results' = results
            /\ pc' = NextPc(name)
       ELSE IF r.threw
       THEN /\ results' = results
            /\ pc' = "crashed"
       ELSE /\ results' = [m \in DOMAIN results \cup {name} |->
                             IF m = name THEN r ELSE results[m]]
            /\ pc' = NextPc(name)
    /\ UNCHANGED <<project, options, report, written, exit, input, output>>

RunEnv == RunModule("env", validateEnv(project))

RunAuth == RunModule("auth", validateAuth(project))

RunApi == RunModule("api", validateApi(project))

RunProject == RunModule("project", validateProject(project))

RunSecurity == RunModule("security", validateSecurity(project))

RunDependencies == RunModule("dependencies", validateDependencies(project))

RunDatabase == RunModule("database", validateDatabase(project))

\* the summary followed by the JSON export whatever the json option says
SummarizeAlwaysJson ==
    /\ options.cmd = "report"
    /\ pc = "summary"
    /\ report' = [done |-> TRUE,
                  passed |-> allPassed(results),
                  totalIssues |-> totalIssues(results),
                  totalWarnings |-> totalWarnings(results),
                  verdict |-> IF allPassed(results) THEN "READY" ELSE "NOT_READY"]
    /\ pc' = "json"
    /\ UNCHANGED <<project, options, results, written, exit, input, output>>

\* allPassed, the totals and the final verdict
Summarize ==
    /\ options.cmd = "report"
    /\ pc = "summary"
    /\ report' = [done |-> TRUE,
                  passed |-> allPassed(results),
                  totalIssues |-> totalIssues(results),
                  totalWarnings |-> totalWarnings(results),
                  verdict |-> IF allPassed(results) THEN "READY" ELSE "NOT_READY"]
    /\ pc' = IF options.json THEN "json" ELSE "return"
    /\ UNCHANGED <<project, options, results, written, exit, input, output>>

\* if (json) { ... await fs.writeJson(reportPath, jsonReport, { spaces: 2 }) }
WriteJson ==
    /\ options.cmd = "report"
    /\ pc = "json"
    /\ written' = Append(written,
          [file |-> <<"r","e","a","d","y","-","t","o","-","s","h","i","p","-","r","e","p","o","r","t",".","j","s","o","n">>,
           verdict |-> IF report.passed THEN "READY" ELSE "NOT_READY",
           summary |-> [m \in DOMAIN results |->
                          [passed |-> results[m].passed,
                           issues |-> Len(results[m].issues),
                           warnings |-> Len(results[m].warnings)]],
           details |-> results])
    /\ pc' = "return"
    /\ UNCHANGED <<project, options, results, report, exit, input, output>>

(***************************************************************************)
(* src/cli.js                                                              *)
(***************************************************************************)
\* the report command exiting with 0 whatever generate returned
ExitReportAlwaysZero ==
    /\ options.cmd = "report"
    /\ pc = "return"
    /\ exit' = 0
    /\ pc' = "done"
    /\ UNCHANGED <<project, options, results, report, written, input, output>>

\* report: const result = await reportModule.generate(...);
\*         process.exit(result.passed ? 0 : 1)
ExitReport ==
    /\ options.cmd = "report"
    /\ pc = "return"
    /\ exit' = IF report.passed THEN 0 ELSE 1
    /\ pc' = "done"
    /\ UNCHANGED <<project, options, results, report, written, input, output>>

\* env, auth, api, project, security, dependencies, database:
\*   const result = await module.validate(options.path);
\*   process.exit(result.passed ? 0 : 1)
Command(name, result) ==
    /\ options.cmd = name
    /\ pc = "cli"
    /\ IF result.threw
       THEN /\ pc' = "crashed"
            /\ UNCHANGED <<results, exit>>
       ELSE /\ results' = [m \in {name} |-> result]
            /\ exit' = IF result.passed THEN 0 ELSE 1
            /\ pc' = "done"
    /\ UNCHANGED <<project, options, report, written, input, output>>

CmdEnv == Command("env", validateEnv(project))

CmdAuth == Command("auth", validateAuth(project))

CmdApi == Command("api", validateApi(project))

CmdProject == Command("project", validateProject(project))

CmdSecurity == Command("security", validateSecurity(project))

CmdDependencies == Command("dependencies", validateDependencies(project))

CmdDatabase == Command("database", validateDatabase(project))

(***************************************************************************)
(* The projects the validators are run on                                  *)
(***************************************************************************)
Absent == [exists |-> FALSE, content |-> <<>>]

File(content) == [exists |-> TRUE, content |-> content]

Lines(ls) == join(ls, <<"\n">>)

NoPkg ==
    [exists |-> FALSE, kind |-> "unreadable", dependencies |-> EmptyDeps,
     devDependencies |-> EmptyDeps, start |-> <<>>, description |-> FALSE]

\* a package.json that does not parse to an object
BadPkg(kind) == [NoPkg EXCEPT !.exists = TRUE, !.kind = kind]

\* a package.json object with the given dependencies (all at one version)
Pkg(names, version, start, description) ==
    [exists |-> TRUE, kind |-> "object",
     dependencies |-> [n \in names |-> version], devDependencies |-> EmptyDeps,
     start |-> start, description |-> description]

SrcFile(dirs, base, ext, content) ==
    [dirs |-> dirs, base |-> base, ext |-> ext, content |-> content]

\* an empty project directory
EmptyProject ==
    [env |-> Absent, envExample |-> Absent, readmes |-> <<Absent, Absent, Absent>>,
     pkg |-> NoPkg, lock |-> FALSE, folders |-> {}, files |-> <<>>, nodeMajor |-> 18]

\* the top-level folders that the files of a project imply
FoldersOf(files) == {files[i].dirs[1] : i \in {k \in 1..Len(files) : Len(files[k].dirs) > 0}}

WithFiles(p, files) == [p EXCEPT !.files = files, !.folders = @ \cup FoldersOf(files)]

HealthLine == <<"a","p","p",".","g","e","t","(","'","/","h","e","a","l","t","h","'",","," ","o","k",")",";">>

AdminLine == <<"a","p","p",".","g","e","t","(","'","/","a","d","m","i","n","/","u","s","e","r","s","'",","," ","a","u","t","h",","," ","l","i","s","t",")",";">>

AccountsLine == <<"a","p","p",".","g","e","t","(","'","/","a","c","c","o","u","n","t","s","'",","," ","l","i","s","t",")",";">>

LoginLine == <<"r","o","u","t","e","r",".","p","o","s","t","(","\"","/","l","o","g","i","n","\"",","," ","l","o","g","i","n",")",";">>

ItemsLine == <<"R","o","u","t","e",".","p","u","t","(","'","/","i","t","e","m","s","/","1","'",","," ","s","a","v","e","I","t","e","m",")",";">>

PlainLine == <<"c","o","n","s","t"," ","a","p","p"," ","="," ","e","x","p","r","e","s","s","(",")",";">>

HandlerLine == <<"a","p","p",".","u","s","e","(","e","r","r","o","r","H","a","n","d","l","e","r",")",";">>

HelmetLine == <<"a","p","p",".","u","s","e","(","h","e","l","m","e","t","(",")",","," ","c","o","r","s","(","{"," ","o","r","i","g","i","n",":"," ","'","a",".","i","o","'"," ","}",")",")",";">>

WildcardLine == <<"a","p","p",".","u","s","e","(","c","o","r","s","(","{"," ","o","r","i","g","i","n",":"," ","'","*","'"," ","}",")",")",";"," ","e","v","a","l"," ","(","x",")",";">>

DbLine == <<"p","o","o","l",".","c","o","n","n","e","c","t","(",")",".","c","a","t","c","h","(","e","x","i","t",")",";">>

DbBareLine == <<"m","o","d","u","l","e",".","e","x","p","o","r","t","s"," ","="," ","c","o","n","n","e","c","t","(","u","r","l",")",";">>

LongSecret == Repeat("s", 40)

ReadmeText == <<"#"," ","S","e","r","v","i","c","e","\n","I","n","s","t","a","l","l"," ","w","i","t","h"," ","n","p","m"," ","i","n","s","t","a","l","l","."," ","U","s","a","g","e",":"," ","n","p","m"," ","s","t","a","r","t",".","\n">> \o Repeat("-", 60)

\* .env files
EnvPool ==
    {Absent,
     File(<<"J","W","T","_","S","E","C","R","E","T","=">> \o LongSecret),
     File(<<"J","W","T","_","S","E","C","R","E","T","=","s","h","o","r","t","\n","A","P","I","_","U","R","L","=","n","o","w","h","e","r","e","\n","P","O","R","T","=","a","b","c">>),
     File(<<"#"," ","d","a","t","a","b","a","s","e","\n","D","A","T","A","B","A","S","E","_","U","R","L","=","\"","m","o","n","g","o","d","b",":","/","/","l","o","c","a","l","h","o","s","t",":","2","7","0","1","7","/","a","p","p","\"","\n","J","W","T","_","S","E","C","R","E","T","=">> \o LongSecret)}

PkgPool ==
    {NoPkg, BadPkg("empty"), BadPkg("malformed"), BadPkg("null"), BadPkg("unreadable"),
     Pkg({<<"e","x","p","r","e","s","s">>}, <<"^","4",".","1","8",".","0">>, <<>>, FALSE),
     Pkg({<<"e","x","p","r","e","s","s">>, <<"h","e","l","m","e","t">>, <<"m","o","n","g","o","o","s","e">>}, <<"^","5",".","0",".","0">>, <<"n","o","d","e"," ","s","e","r","v","e","r",".","j","s">>, TRUE)}

\* source files, in glob (path) order
FilePool ==
    <<SrcFile(<<<<"c","o","n","f","i","g">>>>, <<"d","b">>, <<"j","s">>, Lines(<<DbBareLine>>)),
      SrcFile(<<<<"d","b">>>>, <<"c","o","n","n","e","c","t","i","o","n">>, <<"j","s">>, Lines(<<DbLine>>)),
      SrcFile(<<<<"r","o","u","t","e","s">>>>, <<"i","n","d","e","x">>, <<"j","s">>, Lines(<<HealthLine, AdminLine>>)),
      SrcFile(<<<<"r","o","u","t","e","s">>>>, <<"o","p","e","n">>, <<"j","s">>, Lines(<<PlainLine, AccountsLine, LoginLine, ItemsLine>>)),
      SrcFile(<<>>, <<"s","e","r","v","e","r">>, <<"j","s">>, Lines(<<PlainLine, HelmetLine, HandlerLine>>)),
      SrcFile(<<<<"s","r","c">>, <<"r","o","u","t","e","s">>>>, <<"u","n","s","a","f","e">>, <<"t","s">>, Lines(<<WildcardLine, HealthLine>>))>>

\* the largest number of source files of a project
MaxFiles == 2

\* the subsequences of FilePool with at most MaxFiles files
FileSelections ==
    {T \in SUBSET (1..Len(FilePool)) : Cardinality(T) <= MaxFiles}

FilesOf(T) ==
    LET picked == SelectSeq([i \in 1..Len(FilePool) |-> i], LAMBDA i : i \in T)
    IN  [k \in 1..Len(picked) |-> FilePool[picked[k]]]

\* the scenario of the specification: package.json with express only, a .env
\* with a 40-character JWT_SECRET, one route file with a health route and an
\* admin route behind auth
ScenarioFiles ==
    {<<SrcFile(dirs, base, <<"j","s">>, Lines(ls))>> :
        dirs \in {<<<<"r","o","u","t","e","s">>>>, <<<<"a","p","i">>>>, <<<<"s","r","c">>>>},
        base \in {<<"i","n","d","e","x">>, <<"u","s","e","r","s">>},
        ls \in {<<HealthLine, AdminLine>>, <<AdminLine, HealthLine>>,
                <<PlainLine, HealthLine, AdminLine>>}}

ScenarioProject(files) ==
    WithFiles([EmptyProject EXCEPT
                  !.env = File(<<"J","W","T","_","S","E","C","R","E","T","=">> \o LongSecret),
                  !.pkg = Pkg({<<"e","x","p","r","e","s","s">>}, <<"^","4",".","1","8",".","0">>, <<>>, FALSE)], files)

ScenarioProjects == {ScenarioProject(fs) : fs \in ScenarioFiles}

\* a project with documentation in place, varied in its files
DocumentedProject ==
    [EmptyProject EXCEPT
        !.env = File(<<"J","W","T","_","S","E","C","R","E","T","=">> \o LongSecret),
        !.envExample = File(<<"J","W","T","_","S","E","C","R","E","T","=">>),
        !.readmes = <<File(ReadmeText), Absent, Absent>>,
        !.pkg = Pkg({<<"e","x","p","r","e","s","s">>, <<"h","e","l","m","e","t">>, <<"m","o","n","g","o","o","s","e">>}, <<"^","5",".","0",".","0">>, <<"n","o","d","e"," ","s","e","r","v","e","r",".","j","s">>, TRUE),
        !.lock = TRUE]

\* the projects every validator is run on
GeneralProjects ==
    {EmptyProject}
    \cup ScenarioProjects
    \cup {WithFiles(DocumentedProject, FilesOf(T)) : T \in FileSelections}
    \cup {WithFiles([EmptyProject EXCEPT !.env = e, !.pkg = k], FilesOf(T)) :
            e \in EnvPool, k \in PkgPool, T \in {{}, {2}, {3}}}

\* the projects report.generate is run on
ReportProjects ==
    {EmptyProject,
     ScenarioProject(<<SrcFile(<<<<"r","o","u","t","e","s">>>>, <<"i","n","d","e","x">>, <<"j","s">>, Lines(<<HealthLine, AdminLine>>))>>),
     ScenarioProject(<<SrcFile(<<<<"s","r","c">>>>, <<"u","s","e","r","s">>, <<"j","s">>, Lines(<<AdminLine, HealthLine>>))>>)}
    \cup {WithFiles(DocumentedProject, FilesOf(T)) : T \in {{}, {2}, {3, 5}, {2, 5}, {4, 6}, {1, 3}}}
    \cup {WithFiles([EmptyProject EXCEPT !.env = e, !.pkg = k], FilesOf({3})) :
            e \in {Absent, File(<<"#"," ","d","a","t","a","b","a","s","e","\n","D","A","T","A","B","A","S","E","_","U","R","L","=","\"","m","o","n","g","o","d","b",":","/","/","l","o","c","a","l","h","o","s","t",":","2","7","0","1","7","/","a","p","p","\"">>)},
            k \in {BadPkg("malformed"), BadPkg("null"),
                   Pkg({<<"e","x","p","r","e","s","s">>, <<"p","g">>}, <<"^","4",".","1","8",".","0">>, <<>>, FALSE)}}

\* route files for the auth and api validators: up to MaxRouteLines lines of
\* RouteLinePool, then possibly a line that sets a JWT expiry
RouteLinePool == {AccountsLine, AdminLine, HealthLine, <<"/","/"," ","o","k">>}

MaxRouteLines == 2

ExpiryLine(text) == <<"s","i","g","n","(","u",","," ","{"," ","e","x","p","i","r","e","s","I","n",":"," ">> \o text \o <<" ","}",")",";">>

ExpiryPool ==
    {<<>>, ExpiryLine(<<"'","3","0","d","'">>), ExpiryLine(<<"'","7","d","'">>), ExpiryLine(<<"'","8","d","'">>), ExpiryLine(<<"'","3","6","5","d","'">>),
     ExpiryLine(<<"'","3","6","6","d","'">>), ExpiryLine(<<"'","2","y","'">>), ExpiryLine(<<"6","0","4","8","0","0">>), ExpiryLine(<<"6","0","4","8","0","1">>),
     ExpiryLine(<<"3","1","5","3","6","0","0","1">>)}

RECURSIVE SeqsUpTo(_, _)
SeqsUpTo(S, n) ==
    IF n = 0 THEN {<<>>}
    ELSE SeqsUpTo(S, n - 1) \cup {Append(s, x) : s \in {t \in SeqsUpTo(S, n - 1) : Len(t) = n - 1}, x \in S}

RouteTexts ==
    {Lines(ls \o (IF e = <<>> THEN <<>> ELSE <<e>>)) :
        ls \in SeqsUpTo(RouteLinePool, MaxRouteLines), e \in ExpiryPool}

\* routes/a.js is found by one pattern, src/routes/a.js by two, server.js
\* only as a main app file
RoutePlaces == {<<<<"r","o","u","t","e","s">>>>, <<<<"s","r","c">>, <<"r","o","u","t","e","s">>>>}

RouteProjects ==
    {WithFiles(EmptyProject, <<SrcFile(d, <<"a">>, <<"j","s">>, t)>>) : d \in RoutePlaces, t \in RouteTexts}
    \cup {WithFiles(EmptyProject, <<SrcFile(<<>>, <<"s","e","r","v","e","r">>, <<"j","s">>, Lines(<<AccountsLine, e>>))>>) :
            e \in ExpiryPool \ {<<>>}}
    \cup {WithFiles(EmptyProject,
                    <<SrcFile(<<<<"r","o","u","t","e","s">>>>, <<"a">>, <<"j","s">>, e1), SrcFile(<<<<"r","o","u","t","e","s">>>>, <<"b">>, <<"j","s">>, e2)>>) :
            e1 \in ExpiryPool, e2 \in ExpiryPool}

\* route files of up to MaxApiLines registrations of the REST verbs
ApiLinePool ==
    {<<"a","p","p",".","p","o","s","t","(","'","/","u","s","e","r","s","'",","," ","c",")",";">>, <<"a","p","p",".","g","e","t","(","'","/","u","s","e","r","s","'",","," ","l",")",";">>, <<"a","p","p",".","p","o","s","t","(","'","/","u","s","e","r","s","/","n","e","w","'",","," ","c",")",";">>,
     <<"a","p","p",".","p","a","t","c","h","(","'","/","u","s","e","r","s","/","1","'",","," ","u",")",";">>, <<"a","p","p",".","p","u","t","(","'","/","u","s","e","r","s","/","1","'",","," ","u",")",";">>, <<"R","o","u","t","e",".","g","e","t","(","'","/","u","s","e","r","s","/","1","'",","," ","g",")",";">>,
     HealthLine, <<"r","o","u","t","e","r",".","p","u","t","(","'","c","o","n","s","t","r","u","c","t","o","r","'",","," ","u",")",";">>}

MaxApiLines == 3

ApiProjects ==
    {WithFiles(EmptyProject, <<SrcFile(<<<<"r","o","u","t","e","s">>>>, <<"a">>, <<"j","s">>, Lines(ls))>>) :
        ls \in SeqsUpTo(ApiLinePool, MaxApiLines)}

\* route files of up to MaxApiLines lines with sensitive routes that have
\* auth or jwt in their path, in a handler name, or nowhere; one
\* registration has its path on the line after the verb
GuardLinePool ==
    {<<"a","p","p",".","p","o","s","t","(","'","/","a","u","t","h","/","c","h","a","n","g","e","'",","," ","f",")",";">>, <<"r","o","u","t","e","r",".","g","e","t","(","'","/","a","p","i","/","v","1","/","a","u","t","h","/","u","s","e","r","s","'",","," ","f",")",";">>,
     <<"a","p","p",".","g","e","t","(","'","/","a","d","m","i","n","'",","," ","j","w","t","C","h","e","c","k",")",";">>, <<"a","p","p",".","g","e","t","(","'","/","a","d","m","i","n","'",","," ","f",")",";">>, <<"a","p","p",".","d","e","l","e","t","e","\n","(","'","/","a","u","t","h","/","c","h","a","n","g","e","'",","," ","f",")",";">>,
     <<"a","p","p",".","p","u","t","(","'","/","s","e","t","t","i","n","g","s","'",","," ","f",")",";"," ","/","/"," ","J","W","T">>, <<"/","/"," ","o","k">>}

GuardProjects ==
    {WithFiles(EmptyProject, <<SrcFile(<<<<"r","o","u","t","e","s">>>>, <<"a">>, <<"j","s">>, Lines(ls))>>) :
        ls \in SeqsUpTo(GuardLinePool, MaxApiLines)}

\* projects of up to MaxFillers like files under config/ followed by one
\* more, config/z.js; the scan reads them in this order
EvalLine == <<"c","o","n","s","t"," ","r"," ","="," ","e","v","a","l","(","s","r","c",")",";">>

RegExpLine == <<"c","o","n","s","t"," ","r","e"," ","="," ","n","e","w"," ","R","e","g","E","x","p","(","a"," ","+"," ","b",")",";">>

LimiterLine == <<"a","p","p",".","u","s","e","(","r","a","t","e","L","i","m","i","t","(","{"," ","m","a","x",":"," ","9"," ","}",")",")",";">>

MaxFillers == 20

SecurityProjects ==
    {WithFiles([EmptyProject EXCEPT !.pkg = Pkg({<<"e","x","p","r","e","s","s">>}, <<"^","4",".","1","8",".","0">>, <<>>, FALSE)],
               [i \in 1..k |-> SrcFile(<<<<"c","o","n","f","i","g">>>>, <<"f">> \o NumberToString(100 + i), <<"j","s">>, fill)]
               \o <<SrcFile(<<<<"c","o","n","f","i","g">>>>, <<"z">>, <<"j","s">>, last)>>) :
        k \in 0..MaxFillers,
        fill \in {<<"/","/"," ","o","k">>, <<"a","p","p",".","u","s","e","(","h","e","l","m","e","t","(",")",")",";">>},
        last \in {EvalLine, <<"a","p","p",".","u","s","e","(","c","o","r","s","(","{"," ","o","r","i","g","i","n",":"," ","\"","*","\""," ","}",")",")",";">>, RegExpLine, LimiterLine,
                  <<"r","e","s",".","s","e","t","(","'","X","-","F","r","a","m","e","-","O","p","t","i","o","n","s","'",","," ","'","D","E","N","Y","'",")",";">>}}

\* projects with a database in .env, in package.json or in both, and up to
\* MaxFillers like files under db/ followed by at most one more, db/z.js
DbProjects ==
    {WithFiles([EmptyProject EXCEPT !.env = e, !.pkg = k],
               [i \in 1..n |-> SrcFile(<<<<"d","b">>>>, <<"f">> \o NumberToString(100 + i), <<"j","s">>, <<"/","/"," ","o","k">>)]
               \o last) :
        n \in 0..MaxFillers,
        e \in {Absent, File(<<"D","A","T","A","B","A","S","E","_","U","R","L","=","p","o","s","t","g","r","e","s",":","/","/","d","b",".","e","x","a","m","p","l","e",".","c","o","m","/","a","p","p">>)},
        k \in {Pkg({<<"e","x","p","r","e","s","s">>}, <<"^","4",".","1","8",".","0">>, <<>>, FALSE), Pkg({<<"e","x","p","r","e","s","s">>, <<"p","g">>}, <<"^","8",".","0",".","0">>, <<>>, FALSE)},
        last \in {<<>>} \cup {<<SrcFile(<<<<"d","b">>>>, <<"z">>, <<"j","s">>, c)>> :
                                 c \in {DbLine, DbBareLine, <<"c","l","i","e","n","t",".","o","n","(","'","e","r","r","o","r","'",","," ","l","o","g",")",";">>, <<>>}}}

\* projects that vary .env.example, the README, package.json and the place
\* of the one file with an error handler: alone in server.js, after up to
\* MaxFillers files under src/, or after up to MaxMainFillers main files
ReadmePool ==
    {<<Absent, Absent, Absent>>,
     <<File(ReadmeText), Absent, Absent>>,
     <<Absent, File(<<"#"," ","S","e","r","v","i","c","e","\n","I","n","s","t","a","l","l"," ","a","n","d"," ","u","s","a","g","e",":"," ","s","e","e"," ","w","i","k","i",".">>), Absent>>,
     <<Absent, Absent, File(<<"#"," ","S","e","r","v","i","c","e","\n">> \o Repeat("-", 60) \o Repeat("=", 60))>>}

MaxMainFillers == 3

HandlerPlaces ==
    {<<>>, <<SrcFile(<<>>, <<"s","e","r","v","e","r">>, <<"j","s">>, HandlerLine)>>}
    \cup {[i \in 1..n |-> SrcFile(<<<<"s","r","c">>>>, <<"f">> \o NumberToString(100 + i), <<"j","s">>, <<"/","/"," ","o","k">>)]
           \o <<SrcFile(<<<<"s","r","c">>>>, <<"z">>, <<"j","s">>, HandlerLine)>> : n \in 0..MaxFillers}
    \cup {[i \in 1..n |-> SrcFile(<<<<"m">> \o NumberToString(i)>>, <<"i","n","d","e","x">>, <<"j","s">>, <<"/","/"," ","o","k">>)]
           \o <<SrcFile(<<<<"m","9">>>>, <<"i","n","d","e","x">>, <<"j","s">>, HandlerLine)>> : n \in 1..MaxMainFillers}

StructureProjects ==
    {WithFiles([EmptyProject EXCEPT !.envExample = x, !.readmes = r, !.pkg = k], fs) :
        x \in {Absent, File(<<"J","W","T","_","S","E","C","R","E","T","=">>)}, r \in ReadmePool,
        k \in {NoPkg, BadPkg("empty"), BadPkg("malformed"), BadPkg("null"),
               Pkg({<<"e","x","p","r","e","s","s">>}, <<"^","4",".","1","8",".","0">>, <<>>, FALSE),
               Pkg({<<"e","x","p","r","e","s","s">>}, <<"^","4",".","1","8",".","0">>, <<"n","o","d","e"," ","s","e","r","v","e","r",".","j","s">>, TRUE)},
        fs \in {<<>>, <<SrcFile(<<>>, <<"s","e","r","v","e","r">>, <<"j","s">>, HandlerLine)>>}}
    \cup {WithFiles(DocumentedProject, fs) : fs \in HandlerPlaces}

\* .env files with one secret-like key whose value has 0..MaxSecretLen
\* characters, possibly quoted, possibly followed by a second line
SecretKeyPool ==
    {<<"J","W","T","_","S","E","C","R","E","T">>, <<"s","e","s","s","i","o","n","_","s","e","c","r","e","t">>, <<"S","E","C","R","E","T","_","K","E","Y">>, <<"A","P","I","_","K","E","Y">>, <<"D","B","_","P","A","S","S","W","O","R","D">>, <<"A","U","T","H","_","T","O","K","E","N">>}

MaxSecretLen == 34

SecondLinePool(key) == {<<>>, <<"#"," ","c","o","m","m","e","n","t">>, <<"P","O","R","T","=","3","0","0","0">>, key \o <<"="," ">> \o LongSecret}

EnvTexts ==
    {Lines(<<key \o <<"=">> \o q \o Repeat("x", n) \o q>> \o (IF l2 = <<>> THEN <<>> ELSE <<l2>>)) :
        key \in SecretKeyPool, n \in 0..MaxSecretLen, q \in {<<>>, <<"\"">>},
        l2 \in UNION {SecondLinePool(k) : k \in SecretKeyPool}}

EnvProjects == {[EmptyProject EXCEPT !.env = File(t)] : t \in EnvTexts}

\* projects with a .env.example of up to MaxExampleKeys variables and a
\* .env that is absent or sets up to MaxExampleKeys of them
ExampleKeyPool == {<<"P","O","R","T">>, <<"A","P","I","_","U","R","L">>, <<"t","o","S","t","r","i","n","g">>}

MaxExampleKeys == 2

ExampleTexts ==
    {Lines([i \in 1..Len(ks) |-> ks[i] \o <<"=","h","t","t","p",":","/","/","a",".","i","o">>]) :
        ks \in SeqsUpTo(ExampleKeyPool, MaxExampleKeys)}

ExampleProjects ==
    {[EmptyProject EXCEPT !.env = e, !.envExample = File(x)] :
        e \in {Absent} \cup {File(t) : t \in ExampleTexts}, x \in ExampleTexts}

(***************************************************************************)
(* Specifications                                                          *)
(***************************************************************************)
\* the skip sets that are tried: every set of module names
SkipSets == SUBSET ModuleNames

\* ready-to-ship report [--json] [--skip a,b]
ReportOptions ==
    [cmd : {"report"}, json : {FALSE}, skip : SkipSets]
    \cup [cmd : {"report"}, json : {TRUE},
          skip : {S \in SkipSets : Cardinality(S) \in {0, 1, Cardinality(ModuleNames)}}]

Idle ==
    /\ results = NoResults
    /\ report = NoReport
    /\ written = <<>>
    /\ exit = NoExit

Init ==
    /\ project \in ReportProjects
    /\ options \in ReportOptions
    /\ pc = ModuleOrder[1]
    /\ Idle
    /\ input = NoInput
    /\ output = NoOutput

Next ==
    \/ RunEnv
    \/ RunAuth
    \/ RunApi
    \/ RunProject
    \/ RunSecurity
    \/ RunDependencies
    \/ RunDatabase
    \/ Summarize
    \/ WriteJson
    \/ ExitReport

Spec == Init /\ [][Next]_vars

\* ready-to-ship <module>: one validator on its own
CliOptions(cmds) == [cmd : cmds, json : {FALSE}, skip : {{}}]

InitCli ==
    /\ \/ project \in GeneralProjects /\ options \in CliOptions(ModuleNames)
       \/ project \in RouteProjects /\ options \in CliOptions({"auth", "api"})
       \/ project \in ApiProjects /\ options \in CliOptions({"api"})
       \/ project \in GuardProjects /\ options \in CliOptions({"auth"})
       \/ project \in SecurityProjects /\ options \in CliOptions({"security"})
       \/ project \in DbProjects /\ options \in CliOptions({"database"})
       \/ project \in StructureProjects /\ options \in CliOptions({"project"})
       \/ project \in EnvProjects /\ options \in CliOptions({"env"})
       \/ project \in ExampleProjects /\ options \in CliOptions({"env"})
    /\ pc = "cli"
    /\ Idle
    /\ input = NoInput
    /\ output = NoOutput

NextCli ==
    \/ CmdEnv
    \/ CmdAuth
    \/ CmdApi
    \/ CmdProject
    \/ CmdSecurity
    \/ CmdDependencies
    \/ CmdDatabase

SpecCli == InitCli /\ [][NextCli]_vars

\* the extractors called on their own
CtxLinePool == {<<"a","p","p",".","g","e","t","(","'","/","a","c","c","o","u","n","t","s","'",","," ","f",")",";">>, <<"v","e","r","i","f","y","T","o","k","e","n",",">>, <<"/","/"," ","o","k">>}

MaxCtxLines == 5

HasAuthInputs ==
    {[fn |-> "hasAuthMiddleware", code |-> Lines(ls), line |-> l] :
        ls \in SeqsUpTo(CtxLinePool, MaxCtxLines) \ {<<>>}, l \in 1..MaxCtxLines}

UnitPool ==
    {<<>>, <<"s">>, <<"y">>, <<"y","e","a","r">>, <<"y","e","a","r","s">>, <<"Y","e","a","r","s">>, <<"m","o","n","t","h">>, <<"m","o","n","t","h","s">>, <<"m">>, <<"d">>, <<"D">>, <<"d","a","y">>,
     <<"d","a","y","s">>, <<" ","d","a","y","s">>, <<"h">>, <<"h","o","u","r">>, <<"h","o","u","r","s">>, <<"m","i","n">>, <<"m","i","n","u","t","e">>, <<"m","i","n","u","t","e","s">>, <<"w">>, <<"m","s">>,
     <<"h","r","s">>, <<"m","i","n","s">>}

MaxExpiryValue == 30

ExpiryStyles ==
    {[pre |-> <<"{"," ","e","x","p","i","r","e","s","I","n",":"," ","'">>, post |-> <<"'"," ","}">>, quoted |-> TRUE],
     [pre |-> <<"e","x","p","i","r","e","s","I","n"," ","="," ">>, post |-> <<";">>, quoted |-> FALSE],
     [pre |-> <<"J","W","T","_","E","X","P","I","R","Y","=","\"">>, post |-> <<"\"">>, quoted |-> TRUE]}

JwtInputs ==
    {[fn |-> "extractJWTExpiry", n |-> n, unit |-> u, style |-> st,
      code |-> st.pre \o NumberToString(n) \o u \o st.post] :
        n \in 0..MaxExpiryValue, u \in UnitPool, st \in ExpiryStyles}

\* statements that set an expiry, each with the pattern of jwtPatterns it
\* is written for (0: none) and the seconds it stands for
Stmt(text, pattern, seconds) == [text |-> text, pattern |-> pattern, seconds |-> seconds]

StmtPool ==
    {Stmt(<<"s","i","g","n","(","u",","," ","k",","," ","{"," ","e","x","p","i","r","e","s","I","n",":"," ","'","2","h","'"," ","}",")",";">>, 1, 7200),
     Stmt(<<"c","o","n","s","t"," ","o"," ","="," ","{"," ","e","x","p","i","r","e","s","I","n",":"," ","\"","3","d","\""," ","}",";">>, 1, 259200),
     Stmt(<<"o","p","t","s",".","e","x","p","i","r","e","s","I","n"," ","="," ","6","0",";">>, 2, 60),
     Stmt(<<"o","p","t","s",".","e","x","p","i","r","e","s","I","n"," ","="," ","9","0",";">>, 2, 90),
     Stmt(<<"J","W","T","_","E","X","P","I","R","Y","=","\"","1","d","\"">>, 3, 86400),
     Stmt(<<"/","/"," ","n","o"," ","e","x","p","i","r","y"," ","h","e","r","e">>, 0, 0)}

MaxStmts == 3

\* texts of up to MaxStmts statements, one to a line
JwtTextInputs ==
    {[fn |-> "extractJWTExpiry", n |-> 0, unit |-> <<"t","e","x","t">>, style |-> [quoted |-> TRUE],
      stmts |-> ss, code |-> Lines([i \in 1..Len(ss) |-> ss[i].text])] :
        ss \in SeqsUpTo(StmtPool, MaxStmts)}

CallHasAuthMiddleware ==
    /\ pc = "call"
    /\ input.fn = "hasAuthMiddleware"
    /\ output' = [called |-> TRUE, value |-> hasAuthMiddleware(input.code, input.line)]
    /\ pc' = "done"
    /\ UNCHANGED <<project, options, results, report, written, exit, input>>

CallExtractJWTExpiry ==
    /\ pc = "call"
    /\ input.fn = "extractJWTExpiry"
    /\ output' = [called |-> TRUE, value |-> extractJWTExpiry(input.code)]
    /\ pc' = "done"
    /\ UNCHANGED <<project, options, results, report, written, exit, input>>

\* extractRoutes called on the same text up to MaxCalls times
MaxCalls == 3

\* registrations through app, router and Route, one to a line
RegLinePool ==
    {AccountsLine, LoginLine, ItemsLine, <<"r","o","u","t","e","r",".","d","e","l","e","t","e","(","\"","/","i","t","e","m","s","/",":","i","d","\"",","," ","a","u","t","h",","," ","d","e","l",")",";">>,
     <<" "," ","R","o","u","t","e",".","p","a","t","c","h"," ","(","'","/","a","'",","," ","f",")",";">>, <<"/","/"," ","o","k">>}

MaxRegLines == 3

RouteCallInputs ==
    {[fn |-> "extractRoutes", code |-> t] :
        t \in RouteTexts \cup {Lines(<<PlainLine, AccountsLine, LoginLine, ItemsLine>>),
                               Lines(<<ItemsLine, LoginLine, ItemsLine>>)}
              \cup {Lines(ls) : ls \in SeqsUpTo(RegLinePool, MaxRegLines)}}

\* the list the function returned by the previous call still holds
RoutesKeptAcrossCalls(out) == IF out.called THEN out.value ELSE <<>>

\* const routes = []: every call starts from an empty list (and from
\* pattern objects of its own, whose search starts at the first character)
RoutesAtEntry(out) == <<>>

CallExtractRoutes ==
    /\ input.fn = "extractRoutes"
    /\ \/ pc = "call"
       \/ pc = "done" /\ output.calls < MaxCalls
    /\ LET returned(value) ==
               output' = [called |-> TRUE,
                          value  |-> value,
                          calls  |-> IF output.called THEN output.calls + 1 ELSE 1,
                          first  |-> IF output.called THEN output.first ELSE value]
       IN  returned(RoutesAtEntry(output) \o extractRoutes(input.code))
    /\ pc' = "done"
    /\ UNCHANGED <<project, options, results, report, written, exit, input>>

\* parseEnvFile called on a file that cannot be read or has up to
\* MaxEnvLines lines
EnvLinePool ==
    {<<"A","=","1">>, <<" ","A"," ","="," ","'","x","'"," ">>, <<"A","=","2","\\","r">>, <<"#"," ","A","=","3">>, <<>>, <<" "," ">>, <<"B","=">>, <<"=","5">>, <<"n","o","v","a","l","u","e">>, <<"A","=","b","=","c">>,
     <<"_","_","p","r","o","t","o","_","_","=","1">>}

MaxEnvLines == 3

EnvFileInputs ==
    {[fn |-> "parseEnvFile", file |-> f] :
        f \in {Absent} \cup {File(Lines(ls)) : ls \in SeqsUpTo(EnvLinePool, MaxEnvLines)}}

CallParseEnvFile ==
    /\ pc = "call"
    /\ input.fn = "parseEnvFile"
    /\ output' = [called |-> TRUE, value |-> parseEnvFile(input.file.content)]
    /\ pc' = "done"
    /\ UNCHANGED <<project, options, results, report, written, exit, input>>

InitFn ==
    /\ input \in {i \in HasAuthInputs : i.line <= Len(split(i.code, "\n"))} \cup JwtInputs
                 \cup RouteCallInputs \cup EnvFileInputs \cup JwtTextInputs
    /\ output = NoOutput
    /\ pc = "call"
    /\ project = EmptyProject
    /\ options = [cmd |-> "none", json |-> FALSE, skip |-> {}]
    /\ Idle

NextFn ==
    \/ CallHasAuthMiddleware
    \/ CallExtractJWTExpiry
    \/ CallExtractRoutes
    \/ CallParseEnvFile

SpecFn == InitFn /\ [][NextFn]_vars

(***************************************************************************)
(* src/utils/fixHelpers.js                                                 *)
(***************************************************************************)
\* \w of a regular expression
WordSet == LetterSet \cup DigitSet \cup {"_"}

\* issue.match(/<prefix>(\w+)/): the captured word of the leftmost match,
\* <<>> when there is none
WordAfter(issue, prefix) ==
    LET word(i) == SubSeq(issue, i + Len(prefix), RunEnd(issue, i + Len(prefix), WordSet) - 1)
        leftmost(hits) == IF hits = {} THEN <<>> ELSE word(Min(hits))
    IN  leftmost({i \in 1..Len(issue) :
                    /\ MatchAt(issue, i, prefix)
                    /\ i + Len(prefix) <= Len(issue)
                    /\ issue[i + Len(prefix)] \in WordSet})

generateEnvExampleTemplate ==
    <<"#"," ","E","n","v","i","r","o","n","m","e","n","t"," ","V","a","r","i","a","b","l","e","s","\n","#"," ","C","o","p","y"," ","t","h","i","s"," ","f","i","l","e"," ","t","o"," ",".","e","n","v"," ","a","n","d"," ","f","i","l","l"," ","i","n"," ","y","o","u","r"," ","v","a","l","u","e","s","\n","\n">>
    \o <<"#"," ","S","e","r","v","e","r","\n","P","O","R","T","=","3","0","0","0","\n","N","O","D","E","_","E","N","V","=","d","e","v","e","l","o","p","m","e","n","t","\n","\n">>
    \o <<"#"," ","D","a","t","a","b","a","s","e","\n","D","A","T","A","B","A","S","E","_","U","R","L","=","p","o","s","t","g","r","e","s","q","l",":","/","/","u","s","e","r",":","p","a","s","s","w","o","r","d","@","l","o","c","a","l","h","o","s","t",":","5","4","3","2","/","d","b","n","a","m","e","\n","\n">>
    \o <<"#"," ","J","W","T","\n","J","W","T","_","S","E","C","R","E","T","=","y","o","u","r","-","s","u","p","e","r","-","s","e","c","r","e","t","-","j","w","t","-","k","e","y","-","m","i","n","-","3","2","-","c","h","a","r","s","\n","J","W","T","_","E","X","P","I","R","Y","=","7","d","\n","\n">>
    \o <<"#"," ","C","O","R","S","\n","A","L","L","O","W","E","D","_","O","R","I","G","I","N","S","=","h","t","t","p",":","/","/","l","o","c","a","l","h","o","s","t",":","3","0","0","0","\n","\n">>
    \o <<"#"," ","A","P","I"," ","K","e","y","s"," ","(","i","f"," ","n","e","e","d","e","d",")","\n","#"," ","A","P","I","_","K","E","Y","=","y","o","u","r","-","a","p","i","-","k","e","y","\n">>

Fence == <<BACKTICK, BACKTICK, BACKTICK>>

generateReadmeTemplate ==
    <<"#"," ","P","r","o","j","e","c","t"," ","N","a","m","e","\n","\n","B","r","i","e","f"," ","d","e","s","c","r","i","p","t","i","o","n"," ","o","f"," ","y","o","u","r"," ","p","r","o","j","e","c","t",".","\n","\n","#","#"," ","I","n","s","t","a","l","l","a","t","i","o","n","\n","\n">>
    \o Fence \o <<"b","a","s","h","\n","n","p","m"," ","i","n","s","t","a","l","l","\n">> \o Fence \o <<"\n","\n","#","#"," ","C","o","n","f","i","g","u","r","a","t","i","o","n","\n","\n","C","o","p","y"," ">>
    \o <<BACKTICK>> \o <<".","e","n","v",".","e","x","a","m","p","l","e">> \o <<BACKTICK>> \o <<" ","t","o"," ">> \o <<BACKTICK>> \o <<".","e","n","v">>
    \o <<BACKTICK>> \o <<" ","a","n","d"," ","c","o","n","f","i","g","u","r","e"," ","y","o","u","r"," ","e","n","v","i","r","o","n","m","e","n","t"," ","v","a","r","i","a","b","l","e","s",".","\n","\n">>
    \o Fence \o <<"b","a","s","h","\n","c","p"," ",".","e","n","v",".","e","x","a","m","p","l","e"," ",".","e","n","v","\n">> \o Fence \o <<"\n","\n","#","#"," ","U","s","a","g","e","\n","\n">>
    \o Fence \o <<"b","a","s","h","\n","n","p","m"," ","s","t","a","r","t","\n">> \o Fence \o <<"\n","\n","#","#"," ","A","P","I"," ","E","n","d","p","o","i","n","t","s","\n","\n","-"," ">>
    \o <<BACKTICK>> \o <<"G","E","T"," ","/","h","e","a","l","t","h">> \o <<BACKTICK>>
    \o <<" ","-"," ","H","e","a","l","t","h"," ","c","h","e","c","k"," ","e","n","d","p","o","i","n","t","\n","\n","#","#"," ","L","i","c","e","n","s","e","\n","\n","M","I","T","\n">>

CreateFile(file, content, description) ==
    [type |-> "create_file", file |-> file, content |-> content, description |-> description]

Suggestion(description) ==
    [type |-> "suggestion", file |-> <<>>, content |-> <<>>, description |-> description]

\* the body of issues.forEach(issue => ...): the fixes one issue text adds
FixesOf(issue) ==
    LET named(prefix, before, after) ==
            IF WordAfter(issue, prefix) = <<>> THEN <<>>
            ELSE <<Suggestion(before \o WordAfter(issue, prefix) \o after)>>
        fixes(issueLower) ==
            (IF includes(issueLower, <<".","e","n","v",".","e","x","a","m","p","l","e">>)
             THEN <<CreateFile(<<".","e","n","v",".","e","x","a","m","p","l","e">>, generateEnvExampleTemplate,
                               <<"C","r","e","a","t","e"," ",".","e","n","v",".","e","x","a","m","p","l","e"," ","f","i","l","e">>)>>
             ELSE <<>>)
            \o (IF includes(issueLower, <<"r","e","a","d","m","e">>)
                THEN <<CreateFile(<<"R","E","A","D","M","E",".","m","d">>, generateReadmeTemplate, <<"C","r","e","a","t","e"," ","R","E","A","D","M","E",".","m","d"," ","f","i","l","e">>)>>
                ELSE <<>>)
            \o (IF includes(issueLower, <<"w","e","a","k"," ","s","e","c","r","e","t">>)
                THEN named(<<"W","E","A","K"," ","S","E","C","R","E","T",":"," ">>, <<"G","e","n","e","r","a","t","e"," ","a"," ","s","t","r","o","n","g"," ">>,
                           <<" ","u","s","i","n","g",":"," ","n","o","d","e"," ","-","e"," ","\"","c","o","n","s","o","l","e",".","l","o","g","(","r","e","q","u","i","r","e","(","'","c","r","y","p","t","o","'",")",".","r","a","n","d","o","m","B","y","t","e","s","(","3","2",")",".","t","o","S","t","r","i","n","g","(","'","h","e","x","'",")",")","\"">>)
                ELSE <<>>)
            \o (IF includes(issueLower, <<"m","i","s","s","i","n","g",":">>)
                THEN named(<<"M","I","S","S","I","N","G",":"," ">>, <<"A","d","d"," ">>, <<" ","t","o"," ","y","o","u","r"," ",".","e","n","v"," ","f","i","l","e">>)
                ELSE <<>>)
            \o (IF includes(issueLower, <<"s","e","c","u","r","i","t","y"," ","h","e","a","d","e","r","s">>)
                THEN <<Suggestion(<<"I","n","s","t","a","l","l"," ","a","n","d"," ","c","o","n","f","i","g","u","r","e"," ","H","e","l","m","e","t",".","j","s",":"," ","n","p","m"," ","i","n","s","t","a","l","l"," ","h","e","l","m","e","t"," ","&","&"," ","a","p","p",".","u","s","e","(","r","e","q","u","i","r","e","(","\"","h","e","l","m","e","t","\"",")","(",")",")">>)>>
                ELSE <<>>)
            \o (IF includes(issueLower, <<"c","o","r","s">>)
                THEN <<Suggestion(<<"I","n","s","t","a","l","l"," ","a","n","d"," ","c","o","n","f","i","g","u","r","e"," ","C","O","R","S",":"," ","n","p","m"," ","i","n","s","t","a","l","l"," ","c","o","r","s"," ","&","&"," ","a","p","p",".","u","s","e","(","r","e","q","u","i","r","e","(","\"","c","o","r","s","\"",")","(","{"," ","o","r","i","g","i","n",":"," ","p","r","o","c","e","s","s",".","e","n","v",".","A","L","L","O","W","E","D","_","O","R","I","G","I","N","S","?",".","s","p","l","i","t","(","\"",",","\"",")"," ","}",")",")">>)>>
                ELSE <<>>)
            \o (IF includes(issueLower, <<"r","a","t","e"," ","l","i","m","i","t">>)
                THEN <<Suggestion(<<"I","n","s","t","a","l","l"," ","e","x","p","r","e","s","s","-","r","a","t","e","-","l","i","m","i","t",":"," ","n","p","m"," ","i","n","s","t","a","l","l"," ","e","x","p","r","e","s","s","-","r","a","t","e","-","l","i","m","i","t"," ","&","&"," ","a","p","p",".","u","s","e","(","r","e","q","u","i","r","e","(","\"","e","x","p","r","e","s","s","-","r","a","t","e","-","l","i","m","i","t","\"",")","(","{"," ","w","i","n","d","o","w","M","s",":"," ","1","5"," ","*"," ","6","0"," ","*"," ","1","0","0","0",","," ","m","a","x",":"," ","1","0","0"," ","}",")",")">>)>>
                ELSE <<>>)
            \o (IF includes(issueLower, <<"h","e","a","l","t","h"," ","e","n","d","p","o","i","n","t">>)
                THEN <<Suggestion(<<"A","d","d"," ","h","e","a","l","t","h"," ","e","n","d","p","o","i","n","t",":"," ","a","p","p",".","g","e","t","(","\"","/","h","e","a","l","t","h","\"",","," ","(","r","e","q",","," ","r","e","s",")"," ","=",">"," ","r","e","s",".","j","s","o","n","(","{"," ","s","t","a","t","u","s",":"," ","\"","o","k","\"",","," ","t","i","m","e","s","t","a","m","p",":"," ","D","a","t","e",".","n","o","w","(",")"," ","}",")",")">>)>>
                ELSE <<>>)
    IN  fixes(toLowerCase(issue))

generateFixes(issues) == FlatMap(FixesOf, issues)

\* fileExists(path.join(projectPath, file)) for the files a fix can name
FixFileExists(p, file) ==
    CASE file = <<".","e","n","v",".","e","x","a","m","p","l","e">> -> p.envExample.exists
      [] file = <<"R","E","A","D","M","E",".","m","d">>    -> p.readmes[1].exists
      [] OTHER                 -> FALSE

\* fs.writeFile(path.join(projectPath, file), content)
writeFile(p, file, content) ==
    CASE file = <<".","e","n","v",".","e","x","a","m","p","l","e">> -> [p EXCEPT !.envExample = [exists |-> TRUE, content |-> content]]
      [] file = <<"R","E","A","D","M","E",".","m","d">>    -> [p EXCEPT !.readmes[1] = [exists |-> TRUE, content |-> content]]
      [] OTHER                 -> p

\* the branches of a create_file fix with an existing file overwritten
FixStatusOverwriting(exists, dryRun) ==
    IF dryRun THEN "would_create" ELSE "created"

\* if (exists && !dryRun) skipped; else if (dryRun) would_create; else created
FixStatus(exists, dryRun) ==
    IF exists /\ ~dryRun THEN "skipped"
    ELSE IF dryRun THEN "would_create"
    ELSE "created"

\* applyFixes(fixes, projectPath, dryRun) is entered
ApplyCall(fixes, dryRun) == [fn |-> "applyFixes", fixes |-> fixes, dryRun |-> dryRun]

\* const results = []; index counts the fixes the loop has been through
ApplyStart == [called |-> FALSE, results |-> <<>>, index |-> 0]

\* one iteration of  for (const fix of fixes)
ApplyFix ==
    /\ pc = "apply"
    /\ output.index < Len(input.fixes)
    /\ LET pushed(fix, status) ==
               /\ output' = [output EXCEPT !.index = @ + 1,
                                           !.results = Append(@, [fix |-> fix, status |-> status])]
               /\ IF status = "created"
                  THEN /\ project' = writeFile(project, fix.file, fix.content)
                       /\ written' = Append(written, [file |-> fix.file, content |-> fix.content])
                  ELSE UNCHANGED <<project, written>>
           step(fix) ==
               IF fix.type = "create_file"
               THEN pushed(fix, FixStatus(FixFileExists(project, fix.file), input.dryRun))
               ELSE IF fix.type = "suggestion"
               THEN pushed(fix, "suggestion")
               ELSE /\ output' = [output EXCEPT !.index = @ + 1]
                    /\ UNCHANGED <<project, written>>
       IN  step(input.fixes[output.index + 1])
    /\ UNCHANGED <<options, pc, results, report, exit, input>>

\* return results
ApplyReturn ==
    /\ pc = "apply"
    /\ output.index = Len(input.fixes)
    /\ output' = [output EXCEPT !.called = TRUE]
    /\ pc' = "done"
    /\ UNCHANGED <<project, options, results, report, written, exit, input>>

(***************************************************************************)
(* src/cli.js: the fix command                                             *)
(***************************************************************************)
\* Object.values(results).forEach(result => allIssues.push(...issues, ...warnings))
AllIssues(e, a, i, p, s) ==
    e.issues \o e.warnings \o a.issues \o a.warnings \o i.issues \o i.warnings
    \o p.issues \o p.warnings \o s.issues \o s.warnings

\* ready-to-ship fix [--apply]: the five validators, generateFixes, and
\* then either the call of applyFixes(fixes, path, false) or the printed list
CmdFix ==
    /\ options.cmd = "fix"
    /\ pc = "cli"
    /\ LET listed(fixes) ==
               IF Len(fixes) > 0 /\ options.apply
               THEN /\ input' = ApplyCall(fixes, FALSE)
                    /\ output' = ApplyStart
                    /\ pc' = "apply"
               ELSE /\ input' = [fn |-> "generateFixes", fixes |-> fixes]
                    /\ output' = output
                    /\ pc' = "done"
           checked(e, a, i, p, s) ==
               IF e.threw \/ a.threw \/ i.threw \/ p.threw \/ s.threw
               THEN /\ pc' = "crashed"
                    /\ UNCHANGED <<input, output>>
               ELSE listed(generateFixes(AllIssues(e, a, i, p, s)))
       IN  checked(validateEnv(project), validateAuth(project), validateApi(project),
                   validateProject(project), validateSecurity(project))
    /\ UNCHANGED <<project, options, results, report, written, exit>>

\* the fixes applyFixes is called with on its own
FixPool ==
    {CreateFile(<<".","e","n","v",".","e","x","a","m","p","l","e">>, generateEnvExampleTemplate, <<"C","r","e","a","t","e"," ",".","e","n","v",".","e","x","a","m","p","l","e"," ","f","i","l","e">>),
     CreateFile(<<"R","E","A","D","M","E",".","m","d">>, generateReadmeTemplate, <<"C","r","e","a","t","e"," ","R","E","A","D","M","E",".","m","d"," ","f","i","l","e">>),
     Suggestion(<<"A","d","d"," ","P","O","R","T"," ","t","o"," ","y","o","u","r"," ",".","e","n","v"," ","f","i","l","e">>)}

MaxFixes == 3

\* the project directories: .env.example and README.md there or not
FixDisks ==
    {[EmptyProject EXCEPT !.envExample = x, !.readmes[1] = r] :
        x \in {Absent, File(<<"P","O","R","T","=","3","0","0","0">>)}, r \in {Absent, File(ReadmeText)}}

\* the projects the fix command is run on
FixProjects ==
    {EmptyProject,
     [EmptyProject EXCEPT !.env = File(<<"R","E","A","D","M","E","_","S","E","C","R","E","T","=","s","h","o","r","t">>)],
     [EmptyProject EXCEPT !.env = File(<<"P","O","R","T","=","1","\n","E","X","T","R","A","=","2">>), !.envExample = File(<<"P","O","R","T","=","1">>)],
     [EmptyProject EXCEPT !.pkg = BadPkg("null")],
     WithFiles(DocumentedProject, FilesOf({3, 5}))}

InitFix ==
    /\ \/ /\ project \in FixProjects
          /\ options \in [cmd : {"fix"}, json : {FALSE}, skip : {{}}, apply : BOOLEAN]
          /\ pc = "cli"
          /\ input = NoInput
          /\ output = NoOutput
       \/ /\ project \in FixDisks
          /\ options = [cmd |-> "none", json |-> FALSE, skip |-> {}]
          /\ pc = "apply"
          /\ input \in {ApplyCall(fixes, dryRun) :
                          fixes \in SeqsUpTo(FixPool, MaxFixes), dryRun \in BOOLEAN}
          /\ output = ApplyStart
    /\ Idle

NextFix ==
    \/ CmdFix
    \/ ApplyFix
    \/ ApplyReturn

SpecFix == InitFix /\ [][NextFix]_vars

(***************************************************************************)
(* src/cli.js: every subcommand that ends with process.exit                *)
(***************************************************************************)
InitAll == Init \/ InitCli

NextAll == Next \/ NextCli

SpecAll == InitAll /\ [][NextAll]_vars

(***************************************************************************)
(* Properties                                                              *)
(***************************************************************************)
\* C1: once report.generate has computed its summary, the results are those
\* of exactly the modules not named in skip, passed is the conjunction of
\* their passed flags and the two totals are the sums of the lengths of
\* their issue and warning lists; with all seven modules skipped the
\* verdict is READY and both totals are 0.
C1_AggregateOverRunModules ==
    report.done =>
        LET run == ModuleNames \ options.skip
        IN  /\ DOMAIN results = run
            /\ report.passed = (\A m \in run : results[m].passed)
            /\ report.verdict = (IF \A m \in run : results[m].passed
                                 THEN "READY" ELSE "NOT_READY")
            /\ report.totalIssues =
                  Cardinality(UNION {{m} \X (1..Len(results[m].issues)) : m \in run})
            /\ report.totalWarnings =
                  Cardinality(UNION {{m} \X (1..Len(results[m].warnings)) : m \in run})
            /\ run = {} => /\ report.verdict = "READY"
                           /\ report.totalIssues = 0
                           /\ report.totalWarnings = 0

\* a report that passed although a skipped module would have failed, the
\* modules that ran having warnings to sum
C1_SkippedFailureIgnored ==
    /\ report.done
    /\ report.passed
    /\ report.totalWarnings > 0
    /\ options.skip # ModuleNames
    /\ \/ "env" \in options.skip /\ ~validateEnv(project).passed
       \/ "auth" \in options.skip /\ ~validateAuth(project).passed
       \/ "api" \in options.skip /\ ~validateApi(project).passed

\* C2: for each validator and every project, the returned passed is true
\* if and only if the returned issues list is empty.
C2_PassedIffNoIssues ==
    \A m \in DOMAIN results : results[m].passed <=> (Len(results[m].issues) = 0)

\* C3: a route file that registers app.get('/accounts', ...) once, with no
\* auth token anywhere in the file, gives the auth validator's result
\* exactly one missing-auth issue and exactly one vulnerableRoutes entry
\* for that route.
C3_OneIssuePerUnprotectedRoute ==
    (/\ options.cmd = "auth"
     /\ "auth" \in DOMAIN results
     /\ Len(project.files) = 1
     /\ Len(RouteFiles(AuthRouteGlobs, project)) = 1
     /\ LET lines == split(project.files[1].content, "\n")
        IN  Cardinality({i \in 1..Len(lines) : lines[i] = AccountsLine}) = 1
     /\ ~includesCI(project.files[1].content, <<"a","u","t","h">>)
     /\ ~includesCI(project.files[1].content, <<"j","w","t">>)
     /\ ~includesCI(project.files[1].content, <<"v","e","r","i","f","y","t","o","k","e","n">>))
    => LET r   == results["auth"]
           msg == <<"R","o","u","t","e"," ","G","E","T"," ","/","a","c","c","o","u","n","t","s"," ","m","i","s","s","i","n","g"," ","a","u","t","h"," ","m","i","d","d","l","e","w","a","r","e"," ","(">>
                  \o relative(project.files[1]) \o <<")">>
       IN  /\ Cardinality({i \in 1..Len(r.issues) : r.issues[i] = msg}) = 1
           /\ Cardinality({i \in 1..Len(r.data) : r.data[i].path = <<"/","a","c","c","o","u","n","t","s">>}) = 1

\* C4: hasAuthMiddleware(code, L) is true if and only if an auth pattern
\* matches the text of the five lines L-2 .. L+2, clamped to the file.
C4_FiveLineWindow ==
    (output.called /\ input.fn = "hasAuthMiddleware") =>
        LET lines  == split(input.code, "\n")
            first  == IF input.line - 2 < 1 THEN 1 ELSE input.line - 2
            last   == IF input.line + 2 > Len(lines) THEN Len(lines) ELSE input.line + 2
            window == join(SubSeq(lines, first, last), <<"\n">>)
        IN  output.value <=> (\/ includesCI(window, <<"a","u","t","h">>)
                              \/ includesCI(window, <<"j","w","t">>)
                              \/ includesCI(window, <<"v","e","r","i","f","y","t","o","k","e","n">>))

\* C5 as stated: every .env key whose name contains SECRET gets exactly one
\* WEAK SECRET issue when its value is shorter than 32 characters, the
\* empty value included, and none when it has 32 or more.
C5_WeakSecretBelow32 ==
    ("env" \in DOMAIN results /\ project.env.exists) =>
        LET env    == parseEnvFile(project.env.content)
            issues == results["env"].issues
        IN  \A i \in 1..Len(env) :
               includes(env[i].key, <<"S","E","C","R","E","T">>) =>
                  Cardinality({k \in 1..Len(issues) :
                      issues[k] = <<"W","E","A","K"," ","S","E","C","R","E","T",":"," ">> \o env[i].key \o <<" ","(","l","e","n","g","t","h"," ","<"," ","3","2",")">>})
                  = IF Len(env[i].value) < 32 THEN 1 ELSE 0

\* C5 amended: every .env key whose name contains SECRET gets exactly one
\* WEAK SECRET issue when its value has 1 to 31 characters and none when it
\* has 32 or more or is empty; an empty value gets exactly one EMPTY issue
\* instead.
C5_WeakSecretByLength ==
    ("env" \in DOMAIN results /\ project.env.exists) =>
        LET env    == parseEnvFile(project.env.content)
            issues == results["env"].issues
        IN  \A i \in 1..Len(env) :
               includes(env[i].key, <<"S","E","C","R","E","T">>) =>
                  /\ Cardinality({k \in 1..Len(issues) :
                        issues[k] = <<"W","E","A","K"," ","S","E","C","R","E","T",":"," ">> \o env[i].key \o <<" ","(","l","e","n","g","t","h"," ","<"," ","3","2",")">>})
                     = IF Len(env[i].value) >= 1 /\ Len(env[i].value) < 32 THEN 1 ELSE 0
                  /\ Cardinality({k \in 1..Len(issues) :
                        issues[k] = <<"E","M","P","T","Y",":"," ">> \o env[i].key \o <<" ","i","s"," ","e","m","p","t","y">>})
                     = IF Len(env[i].value) = 0 THEN 1 ELSE 0

\* the env validator has flagged a SECRET key whose value has 31 characters
C5_SecretOf31Flagged ==
    /\ "env" \in DOMAIN results
    /\ LET env == parseEnvFile(project.env.content)
       IN  \E i \in 1..Len(env) :
              /\ includes(env[i].key, <<"S","E","C","R","E","T">>)
              /\ Len(env[i].value) = 31
              /\ \E k \in 1..Len(results["env"].issues) :
                    startsWith(results["env"].issues[k], <<"W","E","A","K"," ","S","E","C","R","E","T",":"," ">> \o env[i].key)

\* C6: on an empty project directory every one of the seven modules returns
\* a result with a non-empty issues or warnings list, and the verdict is
\* NOT_READY.
C6_EmptyProjectEveryModuleReports ==
    (project = EmptyProject /\ options.skip = {} /\ pc \in {"return", "done"}) =>
        /\ \A m \in ModuleNames :
              /\ m \in DOMAIN results
              /\ Len(results[m].issues) > 0 \/ Len(results[m].warnings) > 0
        /\ report.verdict = "NOT_READY"

\* C7: extractJWTExpiry converts the number n with a year unit to
\* n * 31,536,000 seconds, a month unit to n * 2,592,000, a day unit to
\* n * 86,400, an hour unit to n * 3,600, a minute unit to n * 60 and a bare
\* number to n; expiresIn: '30d' gives 2,592,000.
C7_FixedMultipliers ==
    (output.called /\ input.fn = "extractJWTExpiry") =>
        LET n == input.n
            u == input.unit
        IN  /\ u \in {<<"y">>, <<"y","e","a","r">>, <<"y","e","a","r","s">>, <<"Y","e","a","r","s">>} =>
                  output.value.found /\ output.value.seconds = n * 31536000
            /\ u \in {<<"m","o","n","t","h">>, <<"m","o","n","t","h","s">>} =>
                  output.value.found /\ output.value.seconds = n * 2592000
            /\ u \in {<<"d">>, <<"D">>, <<"d","a","y">>, <<"d","a","y","s">>, <<" ","d","a","y","s">>} =>
                  output.value.found /\ output.value.seconds = n * 86400
            /\ u \in {<<"h">>, <<"h","o","u","r">>, <<"h","o","u","r","s">>} =>
                  output.value.found /\ output.value.seconds = n * 3600
            /\ u \in {<<"m","i","n">>, <<"m","i","n","u","t","e">>, <<"m","i","n","u","t","e","s">>} =>
                  output.value.found /\ output.value.seconds = n * 60
            /\ (u = <<>> /\ ~input.style.quoted) =>
                  output.value.found /\ output.value.seconds = n

\* expiresIn: '30d' has been converted to 2,592,000 seconds
C7_ThirtyDays ==
    /\ output.called
    /\ input.fn = "extractJWTExpiry"
    /\ input.code = <<"{"," ","e","x","p","i","r","e","s","I","n",":"," ","'","3","0","d","'"," ","}">>
    /\ output.value.found
    /\ output.value.seconds = 2592000

C9_NoDatabaseIsSkipped ==
    (/\ options.cmd = "database"
     /\ pc \in {"done", "crashed"}
     /\ LET env == IF project.env.exists THEN parseEnvFile(project.env.content) ELSE <<>>
        IN  \A i \in 1..Len(env) :
               ~TestAnyCI(env[i].key, {<<"d","a","t","a","b","a","s","e">>, <<"d","b">>, <<"m","o","n","g","o">>, <<"p","o","s","t","g","r","e","s">>, <<"m","y","s","q","l">>, <<"r","e","d","i","s">>})
     /\ \A n \in DOMAIN project.pkg.dependencies \cup DOMAIN project.pkg.devDependencies :
           n \notin {<<"m","o","n","g","o","o","s","e">>, <<"m","o","n","g","o","d","b">>, <<"p","g">>, <<"m","y","s","q","l","2">>, <<"m","y","s","q","l">>, <<"r","e","d","i","s">>, <<"i","o","r","e","d","i","s">>,
                     <<"p","r","i","s","m","a">>, <<"s","e","q","u","e","l","i","z","e">>, <<"t","y","p","e","o","r","m">>})
    => /\ "database" \in DOMAIN results
       /\ results["database"].passed
       /\ results["database"].skipped
       /\ results["database"].issues = <<>>

\* C10: on a project with only a package.json whose dependencies are
\* {express}, a .env with a 40-character JWT_SECRET and one discovered route
\* file with app.get('/health', ...) and app.get('/admin/users', auth, ...),
\* the env, api and auth commands end with passed = true and the database
\* command with passed = true and skipped = true.
C10_ScenarioPasses ==
    (/\ pc \in {"done", "crashed"}
     /\ options.cmd \in {"env", "api", "auth", "database"}
     /\ project.pkg.exists
     /\ project.pkg.kind = "object"
     /\ DOMAIN project.pkg.dependencies = {<<"e","x","p","r","e","s","s">>}
     /\ DOMAIN project.pkg.devDependencies = {}
     /\ project.env.exists
     /\ parseEnvFile(project.env.content)
           = <<[key |-> <<"J","W","T","_","S","E","C","R","E","T">>, value |-> Repeat("s", 40)]>>
     /\ ~project.envExample.exists
     /\ \A i \in 1..Len(project.readmes) : ~project.readmes[i].exists
     /\ Len(project.files) = 1
     /\ Len(RouteFiles(AuthRouteGlobs, project)) > 0
     /\ Len(RouteFiles(ApiRouteGlobs, project)) > 0
     /\ LET lines == Range(split(project.files[1].content, "\n"))
        IN  /\ HealthLine \in lines
            /\ AdminLine \in lines
            /\ lines \subseteq {HealthLine, AdminLine, PlainLine})
    => /\ options.cmd \in DOMAIN results
       /\ results[options.cmd].passed
       /\ options.cmd = "database" => results["database"].skipped

\* the auth command has passed on a project of the scenario
C10_ScenarioAuthPassed ==
    /\ project \in ScenarioProjects
    /\ options.cmd = "auth"
    /\ pc = "done"
    /\ "auth" \in DOMAIN results
    /\ results["auth"].passed
    /\ exit = 0

\* C11: when the api command returns, its result has no health-endpoint
\* issue if some route extracted from a discovered route file has a path
\* equal to /health, /healthz, /ping, /status or /api/health or starting
\* with one of them followed by '/', whatever its method; otherwise it has
\* exactly one health-endpoint issue and passed = false.
C11_HealthIssueIffNoHealthRoute ==
    (options.cmd = "api" /\ "api" \in DOMAIN results) =>
        LET files   == RouteFiles(ApiRouteGlobs, project)
            healthy == \E i \in 1..Len(files) :
                          \E k \in 1..Len(extractRoutes(files[i].content)) :
                             IsHealthPath(extractRoutes(files[i].content)[k].path)
            r       == results["api"]
            count   == Cardinality({k \in 1..Len(r.issues) : r.issues[k] = HealthMissingMsg})
        IN  IF healthy THEN count = 0 ELSE count = 1 /\ ~r.passed

\* C12: when the env command returns and .env exists with every key of
\* .env.example among its keys, no issue starts with 'MISSING:'; and each
\* key of .env.example that is not a key of .env has exactly one issue
\* 'MISSING: <key>'.
C12_MissingIffAbsentFromEnv ==
    (options.cmd = "env" /\ "env" \in DOMAIN results) =>
        LET expected == IF project.envExample.exists
                        THEN Range(Keys(parseEnvFile(project.envExample.content))) ELSE {}
            actual   == IF project.env.exists
                        THEN Range(Keys(parseEnvFile(project.env.content))) ELSE {}
            issues   == results["env"].issues
        IN  /\ (project.env.exists /\ expected \subseteq actual) =>
                  \A i \in 1..Len(issues) : ~startsWith(issues[i], <<"M","I","S","S","I","N","G",":">>)
            /\ \A k \in expected \ actual :
                  Cardinality({i \in 1..Len(issues) : issues[i] = <<"M","I","S","S","I","N","G",":"," ">> \o k}) = 1

\* C13: no validator command and no report run aborts with an exception:
\* whatever the state of package.json and .env, no run ends in a crash and
\* a validator command that has ended has returned a result (with passed,
\* issues and warnings).
C13_NoValidatorAborts ==
    /\ pc # "crashed"
    /\ (pc = "done" /\ options.cmd \in ModuleNames) => options.cmd \in DOMAIN results

\* C14: the dependencies command returns passed = false exactly when
\* package.json is absent or does not parse, and then with exactly one
\* issue and no warning (no later check has run); when package.json parses
\* to an object it returns passed = true with no issue.
C14_DependenciesVerdict ==
    (options.cmd = "dependencies" /\ pc \in {"done", "crashed"}) =>
        LET absent     == ~project.pkg.exists
            unparsable == project.pkg.exists /\ project.pkg.kind \in {"empty", "malformed"}
            object     == project.pkg.exists /\ project.pkg.kind = "object"
            returned   == "dependencies" \in DOMAIN results
            r          == results["dependencies"]
        IN  /\ (absent \/ unparsable \/ object) => returned
            /\ returned => (~r.passed <=> (absent \/ unparsable))
            /\ (absent \/ unparsable) => Len(r.issues) = 1 /\ r.warnings = <<>>
            /\ object => r.passed /\ r.issues = <<>> /\ Len(r.warnings) > 0

\* the dependencies command has failed on a package.json that does not parse
C14_MalformedFails ==
    /\ options.cmd = "dependencies"
    /\ pc = "done"
    /\ project.pkg.exists
    /\ project.pkg.kind = "malformed"
    /\ ~results["dependencies"].passed
    /\ results["dependencies"].issues = <<<<"p","a","c","k","a","g","e",".","j","s","o","n"," ","i","s"," ","m","a","l","f","o","r","m","e","d">>>>
    /\ exit = 1

\* C15: report.generate runs the validators in the order env, auth, api,
\* project, security, dependencies, database, one at a time: every step
\* that changes the results adds the result of exactly one module, the one
\* the loop is at, which is not skipped and has no result yet, keeps the
\* results already there, and those are of modules earlier in the order.
C15_FixedOrderOneAtATime ==
    [][results' # results =>
          LET pos(m) == CHOOSE k \in 1..Len(ModuleOrder) : ModuleOrder[k] = m
          IN  /\ pc \in ModuleNames \ options.skip
              /\ pc \notin DOMAIN results
              /\ DOMAIN results' = DOMAIN results \cup {pc}
              /\ \A m \in DOMAIN results :
                    results'[m] = results[m] /\ pos(m) < pos(pc)]_vars

\* env and api have returned, auth was skipped, and project is next
C15_ThirdAfterSkippedSecond ==
    /\ options.cmd = "report"
    /\ pc = "project"
    /\ "auth" \in options.skip
    /\ DOMAIN results = {"env", "api"}

\* C16: during report.generate no step changes the project; the only file
\* written is ready-to-ship-report.json, at most once, only with the json
\* option and only after the summary over all included validators; a run
\* with the json option that returns has written it exactly once, a run
\* without it never writes.
C16_OnlyTheReportIsWritten ==
    /\ [](/\ Len(written) <= 1
          /\ \A i \in 1..Len(written) : written[i].file = <<"r","e","a","d","y","-","t","o","-","s","h","i","p","-","r","e","p","o","r","t",".","j","s","o","n">>
          /\ written # <<>> =>
                /\ options.json
                /\ report.done
                /\ DOMAIN results = ModuleNames \ options.skip
          /\ ~options.json => written = <<>>
          /\ (options.json /\ pc \in {"return", "done"}) => Len(written) = 1)
    /\ [][project' = project]_vars

\* a report with the json option and one module skipped has returned
\* after writing the file
C16_ReportWrittenOnce ==
    /\ options.cmd = "report"
    /\ options.json
    /\ Cardinality(options.skip) = 1
    /\ pc = "done"
    /\ Len(written) = 1

\* C17: applyFixes writes a file only when it is not a dry run and the
\* target does not exist when its fix is processed: every step that changes
\* the project or the list of writes is an iteration of applyFixes in apply
\* mode on a create_file fix whose file does not exist, and writes exactly
\* that file; a dry run reports every create_file fix as would_create; in
\* apply mode every create_file fix is created or skipped, one that follows
\* a fix for the same file is skipped, and no file is written twice.
C17_WritesOnlyMissingFiles ==
    /\ [](/\ written # <<>> => input.fn = "applyFixes" /\ ~input.dryRun
          /\ \A i \in 1..Len(written) : \A j \in 1..Len(written) :
                written[i].file = written[j].file => i = j
          /\ input.fn = "applyFixes" =>
                LET rs      == output.results
                    creates == {i \in 1..Len(rs) : rs[i].fix.type = "create_file"}
                IN  /\ input.dryRun => \A i \in creates : rs[i].status = "would_create"
                    /\ ~input.dryRun =>
                          \A i \in creates :
                             /\ rs[i].status \in {"created", "skipped"}
                             /\ \A j \in creates :
                                   (j < i /\ rs[j].fix.file = rs[i].fix.file)
                                      => rs[i].status = "skipped")
    /\ [][(written' # written \/ project' # project) =>
             /\ pc = "apply"
             /\ ~input.dryRun
             /\ input.fixes[output.index + 1].type = "create_file"
             /\ ~FixFileExists(project, input.fixes[output.index + 1].file)
             /\ FixFileExists(project', input.fixes[output.index + 1].file)
             /\ written' = Append(written,
                               [file    |-> input.fixes[output.index + 1].file,
                                content |-> input.fixes[output.index + 1].content])]_vars

\* fix --apply has created README.md for the first of two fixes that name
\* it and skipped the second
C17_SecondFixForSameFileSkipped ==
    /\ options.cmd = "fix"
    /\ options.apply
    /\ pc = "done"
    /\ Len(written) >= 1
    /\ \E i \in 1..Len(output.results) : \E j \in 1..Len(output.results) :
          /\ i < j
          /\ output.results[i].fix.file = <<"R","E","A","D","M","E",".","m","d">>
          /\ output.results[j].fix.file = <<"R","E","A","D","M","E",".","m","d">>
          /\ output.results[i].status = "created"
          /\ output.results[j].status = "skipped"

\* C18: a validator subcommand that has ended with a result exits with 0
\* if the returned passed is true and with 1 otherwise, and so does the
\* report subcommand with the passed of generate, which is the conjunction
\* of the modules' passed flags; a written JSON report has the verdict READY
\* exactly when every run module passed, and its summary has for each run
\* module the passed flag and the lengths of the issue and warning lists of
\* that module in details.
C18_VerdictAgreesWithResult ==
    /\ (pc = "done" /\ options.cmd \in ModuleNames) =>
          exit = (IF results[options.cmd].passed THEN 0 ELSE 1)
    /\ (pc = "done" /\ options.cmd = "report") =>
          /\ report.passed = (\A m \in DOMAIN results : results[m].passed)
          /\ exit = (IF report.passed THEN 0 ELSE 1)
    /\ \A i \in 1..Len(written) :
          LET json == written[i]
          IN  /\ json.verdict \in {"READY", "NOT_READY"}
              /\ json.verdict = "READY" <=> (\A m \in DOMAIN results : results[m].passed)
              /\ json.details = results
              /\ DOMAIN json.summary = DOMAIN json.details
              /\ \A m \in DOMAIN json.details :
                    /\ json.summary[m].passed = json.details[m].passed
                    /\ json.summary[m].issues = Len(json.details[m].issues)
                    /\ json.summary[m].warnings = Len(json.details[m].warnings)

\* a report with the json option has exited with 1 after writing the
\* verdict NOT_READY for a module with issues
C18_FailedReportExitsWithOne ==
    /\ options.cmd = "report"
    /\ pc = "done"
    /\ exit = 1
    /\ Len(written) = 1
    /\ written[1].verdict = "NOT_READY"
    /\ \E m \in DOMAIN written[1].summary :
          ~written[1].summary[m].passed /\ written[1].summary[m].issues > 0

IgnoredLine(line) == trim(line) = <<>> \/ startsWith(trim(line), <<"#">>)

\* the line has the form KEY=VALUE
AssignmentLine(line) ==
    /\ ~IgnoredLine(line)
    /\ \E e \in 2..Len(trim(line)) : trim(line)[e] = "="
    /\ trim(line)[1] # "="

KeyOfLine(line) == trim(SubSeq(trim(line), 1, Min(Positions(trim(line), "=")) - 1))

ValueOfLine(line) ==
    StripQuotes(trim(SubSeq(trim(line), Min(Positions(trim(line), "=")) + 1, Len(trim(line)))))

\* C20: every key of the map parseEnvFile returns is non-empty and has no
\* white space at either end, and no key occurs twice; the map is the one
\* of the same text without its blank lines and its lines starting with
\* '#'; every key of the map is assigned by some line, and a key assigned
\* by several lines is in the map with the value of the last of them; a
\* file that cannot be read or is empty gives the empty map.
C20_EnvMapWellFormed ==
    (input.fn = "parseEnvFile" /\ output.called) =>
        LET env   == output.value
            lines == split(input.file.content, "\n")
            kept  == SelectSeq(lines, LAMBDA l : ~IgnoredLine(l))
        IN  /\ \A i \in 1..Len(env) :
                  /\ env[i].key # <<>>
                  /\ env[i].key[1] \notin WhiteSpace
                  /\ env[i].key[Len(env[i].key)] \notin WhiteSpace
                  /\ \A j \in 1..Len(env) : env[j].key = env[i].key => j = i
            /\ Len(input.file.content) > 0 => env = parseEnvFile(Lines(kept))
            /\ \A i \in 1..Len(env) : \E n \in 1..Len(lines) :
                  AssignmentLine(lines[n]) /\ KeyOfLine(lines[n]) = env[i].key
            /\ \A n \in 1..Len(lines) :
                  (/\ Len(input.file.content) > 0
                   /\ AssignmentLine(lines[n])
                   /\ \E m \in 1..(n - 1) :
                         AssignmentLine(lines[m]) /\ KeyOfLine(lines[m]) = KeyOfLine(lines[n])
                   /\ \A m \in (n + 1)..Len(lines) :
                         AssignmentLine(lines[m]) => KeyOfLine(lines[m]) # KeyOfLine(lines[n]))
                  => \E i \in 1..Len(env) :
                        /\ env[i].key = KeyOfLine(lines[n])
                        /\ env[i].value = ValueOfLine(lines[n])
            /\ (~input.file.exists \/ Len(input.file.content) = 0) => env = <<>>

\* a line that registers a route through the identifiers idents
RegistersThrough(line, idents) == \E id \in idents : startsWith(trim(line), id \o <<".">>)

\* the record of a line that registers a route: the verb stands between the
\* first dot and the parenthesis, the path between the first two quotes
RecordOfLine(lines, n) ==
    LET text  == trim(lines[n])
        dot   == Min(Positions(text, "."))
        paren == Min(Positions(text, "("))
        open  == NextOf(text, 1, Quotes)
        close == NextOf(text, open + 1, Quotes)
    IN  [method |-> toUpperCase(trim(SubSeq(text, dot + 1, paren - 1))),
         path   |-> SubSeq(text, open + 1, close - 1),
         line   |-> n]

\* the records of the lines that register through idents, in text order
RecordsThrough(lines, idents) ==
    LET at == SelectSeq([n \in 1..Len(lines) |-> n],
                        LAMBDA n : RegistersThrough(lines[n], idents))
    IN  [k \in 1..Len(at) |-> RecordOfLine(lines, at[k])]

\* C21: extractRoutes returns the hits of its three patterns one pattern
\* after the other, without deduplication: the records of the app./router.
\* registrations in text order, then the same records once more, then the
\* records of the Route. registrations in text order; every method is one
\* of GET, POST, PUT, DELETE, PATCH.
C21_PatternByPatternNoDedup ==
    (input.fn = "extractRoutes" /\ output.called) =>
        LET lines == split(input.code, "\n")
        IN  /\ output.value = RecordsThrough(lines, {<<"a","p","p">>, <<"r","o","u","t","e","r">>})
                              \o RecordsThrough(lines, {<<"a","p","p">>, <<"r","o","u","t","e","r">>})
                              \o RecordsThrough(lines, {<<"R","o","u","t","e">>})
            /\ \A i \in 1..Len(output.value) :
                  output.value[i].method \in {<<"G","E","T">>, <<"P","O","S","T">>, <<"P","U","T">>, <<"D","E","L","E","T","E">>, <<"P","A","T","C","H">>}

\* a Route. registration written before a router. registration has come
\* out after both copies of the latter
C21_RouteAfterRouterCopies ==
    /\ input.fn = "extractRoutes"
    /\ output.called
    /\ input.code = Lines(<<ItemsLine, LoginLine, ItemsLine>>)
    /\ Len(output.value) = 4
    /\ output.value[1] = [method |-> <<"P","O","S","T">>, path |-> <<"/","l","o","g","i","n">>, line |-> 2]
    /\ output.value[2] = output.value[1]
    /\ output.value[3] = [method |-> <<"P","U","T">>, path |-> <<"/","i","t","e","m","s","/","1">>, line |-> 1]
    /\ output.value[4] = [method |-> <<"P","U","T">>, path |-> <<"/","i","t","e","m","s","/","1">>, line |-> 3]

\* C22: extractJWTExpiry returns the value of the first statement in the
\* text written for the earliest pattern of the list (expiresIn with unit,
\* expiresIn bare number, JWT_EXPIRY with unit) that has a statement at
\* all, wherever statements for later patterns stand; it returns null
\* exactly when the text has no such statement.
C22_EarliestPatternFirstOccurrence ==
    (input.fn = "extractJWTExpiry" /\ output.called /\ "stmts" \in DOMAIN input) =>
        LET ss      == input.stmts
            for(k)  == {i \in 1..Len(ss) : ss[i].pattern = k}
            matched == {k \in 1..Len(jwtPatterns) : for(k) # {}}
        IN  /\ output.value.found <=> matched # {}
            /\ matched # {} =>
                  output.value.seconds = ss[Min(for(Min(matched)))].seconds

\* the unit pattern has won over a bare number and a JWT_EXPIRY that stand
\* earlier in the text
C22_LaterStatementWins ==
    /\ input.fn = "extractJWTExpiry"
    /\ output.called
    /\ input.code = Lines(<<<<"J","W","T","_","E","X","P","I","R","Y","=","\"","1","d","\"">>, <<"o","p","t","s",".","e","x","p","i","r","e","s","I","n"," ","="," ","6","0",";">>,
                            <<"s","i","g","n","(","u",","," ","k",","," ","{"," ","e","x","p","i","r","e","s","I","n",":"," ","'","2","h","'"," ","}",")",";">>>>)
    /\ output.value.found
    /\ output.value.seconds = 7200

\* how many times x stands in the sequence s
Count(s, x) == Cardinality({i \in 1..Len(s) : s[i] = x})

\* C23: whenever the api validator returns (it does whenever every
\* extracted path begins with a slash), then for each distinct extracted
\* path P it has emitted the POST warning exactly once if P has POST, P has
\* no GET, P without its last segment is another path and that path has no
\* GET, and not at all otherwise; it has emitted exactly one PUT/PATCH
\* warning if P has PUT or PATCH and no GET, and none otherwise; passed
\* depends on the health endpoint alone.
C23_RestWarningsPerPath ==
    (pc \in {"done", "crashed"} /\ options.cmd = "api"
        /\ Len(RouteFiles(ApiRouteGlobs, project)) > 0) =>
        LET routes     == FlatMap(ApiFileRoutes, RouteFiles(ApiRouteGlobs, project))
            methods(P) == {routes[i].method : i \in {k \in 1..Len(routes) : routes[k].path = P}}
            post(P)    == /\ <<"P","O","S","T">> \in methods(P)
                          /\ <<"G","E","T">> \notin methods(P)
                          /\ \E n \in 1..(Len(P) - 1) :
                                /\ P[n] = "/"
                                /\ \A k \in (n + 1)..Len(P) : P[k] # "/"
                                /\ <<"G","E","T">> \notin methods(SubSeq(P, 1, n - 1))
            change(P)  == /\ methods(P) \cap {<<"P","U","T">>, <<"P","A","T","C","H">>} # {}
                          /\ <<"G","E","T">> \notin methods(P)
        IN  /\ (\A i \in 1..Len(routes) : Head(routes[i].path) = "/") => "api" \in DOMAIN results
            /\ "api" \in DOMAIN results =>
                  /\ \A i \in 1..Len(routes) :
                        LET P == routes[i].path
                            w == results.api.warnings
                        IN  /\ Count(w, <<"P","O","S","T"," ">> \o P \o <<" ","e","x","i","s","t","s"," ","b","u","t"," ","n","o"," ","G","E","T"," ","e","n","d","p","o","i","n","t"," ","f","o","r"," ","c","o","l","l","e","c","t","i","o","n">>)
                                  = IF post(P) THEN 1 ELSE 0
                            /\ Count(w, <<"P","U","T"," ">> \o P \o <<" ","e","x","i","s","t","s"," ","b","u","t"," ","n","o"," ","G","E","T"," ","e","n","d","p","o","i","n","t">>)
                                + Count(w, <<"P","A","T","C","H"," ">> \o P \o <<" ","e","x","i","s","t","s"," ","b","u","t"," ","n","o"," ","G","E","T"," ","e","n","d","p","o","i","n","t">>)
                                  = IF change(P) THEN 1 ELSE 0
                  /\ results.api.passed <=> \E i \in 1..Len(routes) : IsHealthPath(routes[i].path)

\* POST /users alone has been compared against the empty path and warned
\* about, with PATCH and PUT on /users/1 giving one warning, and the
\* validator has passed
C23_SingleSegmentWarned ==
    /\ pc = "done"
    /\ options.cmd = "api"
    /\ "api" \in DOMAIN results
    /\ results.api.warnings = <<<<"P","O","S","T"," ","/","u","s","e","r","s"," ","e","x","i","s","t","s"," ","b","u","t"," ","n","o"," ","G","E","T"," ","e","n","d","p","o","i","n","t"," ","f","o","r"," ","c","o","l","l","e","c","t","i","o","n">>,
                                <<"P","A","T","C","H"," ","/","u","s","e","r","s","/","1"," ","e","x","i","s","t","s"," ","b","u","t"," ","n","o"," ","G","E","T"," ","e","n","d","p","o","i","n","t">>>>
    /\ results.api.issues = <<>>
    /\ results.api.passed

\* C24: whenever the security validator returns (it does unless
\* package.json parses to null), passed is false exactly if one of the
\* first 20 files of the scan has a cors(...) call with a wildcard origin,
\* or none of those 20 has a helmet or security-header keyword, or one of
\* the first 10 has an eval( call; the missing-CORS, missing-rate-limit and
\* dynamic-RegExp findings are warnings and never issues, and no eval
\* finding names a file that is not among the first 10.
C24_SecurityVerdict ==
    (pc \in {"done", "crashed"} /\ options.cmd = "security") =>
        LET all      == SecurityFiles(project)
            read(n)  == {i \in 1..Len(all) : i <= n /\ Len(all[i].content) > 0}
            wildcard == \E i \in read(20) : CorsIssues(all[i].content) # <<>>
            headers  == \E i \in read(20) : hasHeadersIn(all[i].content)
            eval     == \E i \in read(10) : EvalCall(all[i].content)
            evalMsg(f) == <<"e","v","a","l","(",")"," ","u","s","a","g","e"," ","d","e","t","e","c","t","e","d"," ","i","n"," ">> \o relative(f) \o <<" ","-"," ","s","e","c","u","r","i","t","y"," ","r","i","s","k">>
            r        == results.security
        IN  /\ ~(project.pkg.exists /\ project.pkg.kind = "null") => "security" \in DOMAIN results
            /\ "security" \in DOMAIN results =>
                  /\ ~r.passed <=> (wildcard \/ ~headers \/ eval)
                  /\ \A i \in 1..Len(r.issues) :
                        /\ ~startsWith(r.issues[i], <<"C","O","R","S"," ","m","i","d","d","l","e","w","a","r","e"," ","n","o","t"," ","d","e","t","e","c","t","e","d">>)
                        /\ ~startsWith(r.issues[i], <<"R","a","t","e"," ","l","i","m","i","t","i","n","g"," ","n","o","t"," ","d","e","t","e","c","t","e","d">>)
                        /\ ~startsWith(r.issues[i], <<"D","y","n","a","m","i","c"," ","r","e","g","e","x"," ","c","o","n","s","t","r","u","c","t","i","o","n">>)
                  /\ \A i \in 1..Len(all) :
                        (evalMsg(all[i]) \in Range(r.issues) \cup Range(r.warnings))
                            => \E j \in read(10) : all[j] = all[i]

\* an eval( call in the eleventh file has gone unreported: ten files with
\* helmet, then config/z.js with eval, and the validator has passed
C24_EleventhFileNotScanned ==
    /\ pc = "done"
    /\ options.cmd = "security"
    /\ "security" \in DOMAIN results
    /\ Len(project.files) = 11
    /\ project.files[11].content = EvalLine
    /\ results.security.passed
    /\ results.security.issues = <<>>
    /\ Len(results.security.warnings) = 2

\* C25: whenever the database validator returns with a database detected
\* (not skipped), the connection-error-handling issue is there exactly if
\* some db or connection file exists and none of the first 10 of them has
\* an error-handling keyword, and it is the only issue; the pooling and
\* migration findings are warnings, present only when package.json lists a
\* database driver; with no db or connection file the validator passes.
C25_ConnectionHandlingIssue ==
    (pc = "done" /\ options.cmd = "database" /\ "database" \in DOMAIN results
        /\ ~results.database.skipped) =>
        LET files   == findFiles(Glob({<<"d","b">>, <<"d","a","t","a","b","a","s","e">>, <<"c","o","n","f","i","g">>}, "any", {}, JsTs), project)
                       \o findFiles(Glob({}, "contains", {<<"c","o","n","n","e","c","t","i","o","n">>}, JsTs), project)
            handled == \E i \in 1..Len(files) :
                          /\ i <= 10
                          /\ TestAnyCI(files[i].content, {<<"c","a","t","c","h">>, <<"e","r","r","o","r">>})
            driver  == \E i \in 1..Len(dbPackages) :
                          dbPackages[i].pkg \in DOMAIN project.pkg.dependencies
                                                \cup DOMAIN project.pkg.devDependencies
            r       == results.database
            noHandling == <<"D","a","t","a","b","a","s","e"," ","c","o","n","n","e","c","t","i","o","n"," ","e","r","r","o","r"," ","h","a","n","d","l","i","n","g"," ","n","o","t"," ","d","e","t","e","c","t","e","d">>
        IN  /\ Count(r.issues, noHandling) = IF Len(files) > 0 /\ ~handled THEN 1 ELSE 0
            /\ Range(r.issues) \subseteq {noHandling}
            /\ r.passed <=> r.issues = <<>>
            /\ \A i \in 1..Len(r.warnings) :
                  (\/ startsWith(r.warnings[i], <<"C","o","n","n","e","c","t","i","o","n"," ","p","o","o","l","i","n","g"," ","n","o","t"," ","d","e","t","e","c","t","e","d">>)
                   \/ startsWith(r.warnings[i], <<"N","o"," ","m","i","g","r","a","t","i","o","n"," ","f","i","l","e","s"," ","d","e","t","e","c","t","e","d">>)) => driver
            /\ Len(files) = 0 => r.passed

\* a catch in the eleventh db file has not counted: the issue is there
C25_EleventhFileNotRead ==
    /\ pc = "done"
    /\ options.cmd = "database"
    /\ "database" \in DOMAIN results
    /\ Len(project.files) = 11
    /\ project.files[11].content = DbLine
    /\ results.database.issues = <<<<"D","a","t","a","b","a","s","e"," ","c","o","n","n","e","c","t","i","o","n"," ","e","r","r","o","r"," ","h","a","n","d","l","i","n","g"," ","n","o","t"," ","d","e","t","e","c","t","e","d">>>>
    /\ ~results.database.passed

C27_NoRoutesFailsWithoutIssue ==
    LET none(globs) == /\ Len(findAll(globs, project)) = 0
                       /\ Len(findFiles(MainAppGlob, project)) = 0
        short(m)    == /\ ~results[m].passed
                       /\ results[m].issues = <<>>
                       /\ Len(results[m].warnings) = 1
    IN  /\ ("auth" \in DOMAIN results /\ none(AuthRouteGlobs)) => short("auth")
        /\ ("api" \in DOMAIN results /\ none(ApiRouteGlobs)) => short("api")
        /\ (report.done /\ none(AuthRouteGlobs) /\ none(ApiRouteGlobs)
                /\ DOMAIN results \cap {"auth", "api"} # {}) =>
                /\ report.verdict = "NOT_READY"
                /\ ~report.passed
                /\ DOMAIN results \subseteq {"auth", "api"} =>
                      /\ report.totalIssues = 0
                      /\ report.totalWarnings = Cardinality(DOMAIN results)

\* a report over auth and api alone, on a project whose only source file
\* is db/connection.js, has ended NOT_READY with 0 issues
C27_NotReadyWithZeroIssues ==
    /\ report.done
    /\ DOMAIN results = {"auth", "api"}
    /\ Len(project.files) = 1
    /\ report.verdict = "NOT_READY"
    /\ report.totalIssues = 0
    /\ report.totalWarnings = 2

\* C28: extractJWTExpiry converts the number n with the unit m to
\* n * 2,592,000 seconds (months) and with a unit it does not know (w, hrs,
\* mins, ms) to n seconds; expiresIn: '15m' gives 38,880,000, and a route
\* file that holds an m expiry of more than a year gets the
\* JWT-expiry-too-long issue of the auth validator.
C28_MIsMonths ==
    (output.called /\ input.fn = "extractJWTExpiry") =>
        LET n == input.n
            u == input.unit
            auth == validateAuth(WithFiles(EmptyProject,
                                           <<SrcFile(<<<<"r","o","u","t","e","s">>>>, <<"a","u","t","h">>, <<"j","s">>, input.code)>>))
        IN  /\ u = <<"m">> => output.value.found /\ output.value.seconds = n * 2592000
            /\ u \in {<<"w">>, <<"h","r","s">>, <<"m","i","n","s">>, <<"m","s">>} =>
                  output.value.found /\ output.value.seconds = n
            /\ input.code = <<"{"," ","e","x","p","i","r","e","s","I","n",":"," ","'","1","5","m","'"," ","}">> => output.value.seconds = 38880000
            /\ (u = <<"m">> /\ n * 2592000 > 31536000) =>
                  /\ ~auth.passed
                  /\ Len(auth.issues) = 1
                  /\ startsWith(auth.issues[1], <<"J","W","T"," ","e","x","p","i","r","y"," ","t","o","o"," ","l","o","n","g",":"," ">>)

\* expiresIn: '15m' has been converted to 38,880,000 seconds
C28_FifteenM ==
    /\ output.called
    /\ input.fn = "extractJWTExpiry"
    /\ input.code = <<"{"," ","e","x","p","i","r","e","s","I","n",":"," ","'","1","5","m","'"," ","}">>
    /\ output.value.found
    /\ output.value.seconds = 38880000
    /\ 38880000 > oneYearInSeconds

C30_OneFindingByPriority ==
    (pc = "done" /\ options.cmd = "env" /\ project.env.exists /\ "env" \in DOMAIN results) =>
        LET actualVars == parseEnvFile(project.env.content)
            r == results.env
        IN  \A i \in 1..Len(actualVars) :
                LET key    == actualVars[i].key
                    n      == Len(actualVars[i].value)
                    secret == includesCI(key, <<"s","e","c","r","e","t">>)
                    short  == includesCI(key, <<"p","a","s","s","w","o","r","d">>) \/ includesCI(key, <<"k","e","y">>)
                    token  == includesCI(key, <<"t","o","k","e","n">>)
                    empty  == <<"E","M","P","T","Y",":"," ">> \o key \o <<" ","i","s"," ","e","m","p","t","y">>
                    weakSecret == <<"W","E","A","K"," ","S","E","C","R","E","T",":"," ">> \o key \o <<" ","(","l","e","n","g","t","h"," ","<"," ","3","2",")">>
                    weak   == <<"W","E","A","K",":"," ">> \o key \o <<" ","m","i","g","h","t"," ","b","e"," ","t","o","o"," ","s","h","o","r","t"," ","(","l","e","n","g","t","h"," ","<"," ","1","6",")">>
                    e      == Count(r.issues, empty)
                    s      == Count(r.issues, weakSecret)
                    w      == Count(r.warnings, weak)
                IN  (secret \/ short \/ token) =>
                        /\ e + s + w <= 1
                        /\ {empty, weakSecret} \cap Range(r.warnings) = {}
                        /\ weak \notin Range(r.issues)
                        /\ e = 1 <=> n = 0
                        /\ s = 1 <=> (n > 0 /\ n < 32 /\ secret)
                        /\ w = 1 <=> (n > 0 /\ n < 16 /\ short /\ ~secret)
                        /\ (token /\ ~secret /\ ~short /\ n > 0) => e + s + w = 0

\* SECRET_KEY with a value of 10 characters has got the WEAK SECRET issue
\* and no WEAK warning
C30_SecretKeyOnlyWeakSecret ==
    /\ pc = "done"
    /\ options.cmd = "env"
    /\ project.env.exists
    /\ project.env.content = <<"S","E","C","R","E","T","_","K","E","Y","=">> \o Repeat("x", 10)
    /\ "env" \in DOMAIN results
    /\ results.env.issues = <<<<"W","E","A","K"," ","S","E","C","R","E","T",":"," ","S","E","C","R","E","T","_","K","E","Y"," ","(","l","e","n","g","t","h"," ","<"," ","3","2",")">>>>
    /\ <<"W","E","A","K",":"," ","S","E","C","R","E","T","_","K","E","Y"," ","m","i","g","h","t"," ","b","e"," ","t","o","o"," ","s","h","o","r","t"," ","(","l","e","n","g","t","h"," ","<"," ","1","6",")">> \notin Range(results.env.warnings)

====
